---- MODULE Spec2Model ----
(***************************************************************************)
(* A model of the liqpy request / response pipeline:                       *)
(*   - the response classifier  BaseClient._handle_response  together with *)
(*     LiqpayDecoder and the exception factory of liqpy.api.exceptions;    *)
(*   - the request validator    LiqpayValidator.__call__;                  *)
(*   - the request builder      liqpy.api.request.                         *)
(* Python values are records [t, s, n]: t is the Python type, s the text   *)
(* of a string-like value and n the number of a numeric value.  A dict is  *)
(* a function whose DOMAIN is its key set.  Every operation of the library *)
(* is one action, taken when no call is in progress; the variables hold    *)
(* the arguments and the outcome of the call until the caller has taken    *)
(* the outcome (Return).  The library keeps no state between two calls.    *)
(***************************************************************************)
EXTENDS Integers, Sequences, FiniteSets, TLC

VARIABLES now, op, response, outcome, vrequest, vresult, rparams, rresult,
          ecall, eresult, ccall, cresult, net, dur,
          msec,
          report,
          cli,
          vcaller,
          pair,
          classified

vars == <<now, op, response, outcome, vrequest, vresult, rparams, rresult,
          ecall, eresult, ccall, cresult, net, dur,
          msec,
          report,
          cli,
          vcaller,
          pair,
          classified>>

-----------------------------------------------------------------------------
(* Bounds *)

\* the clock makes at most MaxTicks ticks of 500 microseconds
MaxTicks == 1

-----------------------------------------------------------------------------
(* Python values *)

None == [t |-> "NoneType", s |-> "", n |-> 0]

PyStr(x) == [t |-> "str", s |-> x, n |-> 0]

PyInt(x) == [t |-> "int", s |-> "", n |-> x]

PyBool(b) == [t |-> "bool", s |-> "", n |-> IF b THEN 1 ELSE 0]

\* decimal.Decimal with an integral value x
Dec(x) == [t |-> "Decimal", s |-> "", n |-> x]

\* decimal.Decimal x.f with the integer part x >= 0 and the fraction digits
\* f (a text of digits, not empty)
DecFrac(x, f) == [t |-> "Decimal", s |-> f, n |-> x]

RECURSIVE StripZeros(_)
\* the fraction digits f without the trailing zeros, which do not count
\* for the value
StripZeros(f) ==
    IF Len(f) > 0 /\ SubSeq(f, Len(f), Len(f)) = "0"
    THEN StripZeros(SubSeq(f, 1, Len(f) - 1))
    ELSE f

\* a == b of Python for two values: numbers are compared by value,
\* everything else by type and content
PyEq(a, b) ==
    IF a.t \in {"int", "bool", "Decimal"} /\ b.t \in {"int", "bool", "Decimal"}
    THEN a.n = b.n /\ StripZeros(a.s) = StripZeros(b.s)
    ELSE a = b

\* datetime: n is the instant in microseconds since the epoch, s the tzinfo
\* ("UTC", or "" for a naive datetime)
DateTime(x, tz) == [t |-> "datetime", s |-> tz, n |-> x]

\* timedelta of x microseconds
TimeDelta(x) == [t |-> "timedelta", s |-> "", n |-> x]

\* marks a key that the dict does not have (never a value of a dict)
Absent == [t |-> "absent", s |-> "", n |-> 0]

\* a list of the values items
PyList(items) == [t |-> "list", s |-> "", n |-> 0, items |-> items]

\* a dict (Mapping) with the entries d
PyDict(d) == [t |-> "dict", s |-> "", n |-> 0, d |-> d]

\* bool(value)
Truthy(x) ==
    CASE x.t = "NoneType" -> FALSE
      [] x.t = "str" -> x.s # ""
      [] x.t = "Decimal" -> x.n # 0 \/ StripZeros(x.s) # ""
      [] x.t \in {"int", "bool", "timedelta"} -> x.n # 0
      [] OTHER -> TRUE

\* the dict with no keys
EmptyDict == [k \in {} |-> None]

\* the dict d without the keys ks (dict.pop, del)
Without(d, ks) == [k \in DOMAIN d \ ks |-> d[k]]

\* dict.get(k) / dict.pop(k, None): the value, or None
Get(d, k) == IF k \in DOMAIN d THEN d[k] ELSE None

\* d with d[k] = v
Put(d, k, v) == [x \in DOMAIN d \cup {k} |-> IF x = k THEN v ELSE d[x]]

\* the dict built from a choice of a value or Absent for every key
MkDict(choice) == [k \in {x \in DOMAIN choice : choice[x] # Absent} |-> choice[k]]

-----------------------------------------------------------------------------
(* str helpers *)

Digits == {"0", "1", "2", "3", "4", "5", "6", "7", "8", "9"}

\* str.isdigit
IsDigit(x) == Len(x) > 0 /\ \A i \in 1..Len(x) : SubSeq(x, i, i) \in Digits

\* str.startswith
StartsWith(x, p) == Len(x) >= Len(p) /\ SubSeq(x, 1, Len(p)) = p

\* str.endswith
EndsWith(x, p) == Len(x) >= Len(p) /\ SubSeq(x, Len(x) - Len(p) + 1, Len(x)) = p

RECURSIVE LStrip(_, _)
LStrip(x, chars) ==
    IF Len(x) > 0 /\ SubSeq(x, 1, 1) \in chars
    THEN LStrip(SubSeq(x, 2, Len(x)), chars)
    ELSE x

RECURSIVE RStrip(_, _)
RStrip(x, chars) ==
    IF Len(x) > 0 /\ SubSeq(x, Len(x), Len(x)) \in chars
    THEN RStrip(SubSeq(x, 1, Len(x) - 1), chars)
    ELSE x

\* str.strip(chars)
Strip(x, chars) == RStrip(LStrip(x, chars), chars)

-----------------------------------------------------------------------------
(* liqpy.api.exceptions *)

UNKNOWN_ERRCODE == "unknown"

UNKNOWN_ERRMSG == "Unknown error"

\* TRANSLATIONS.get(description, description): the three keys of the table
\* are Cyrillic messages, every other description maps to itself
Translate(description) == description

\* mutant: only four-digit codes are taken for decline codes
IsFinancialCode_FourDigits(code) == IsDigit(code) /\ Len(code) = 4

\* the rule of the numeric decline codes: code.isdigit() and code != "5"
IsFinancialCode(code) == IsDigit(code) /\ code # "5"

\* get_exception_cls(code); code is None or a str
get_exception_cls(code) ==
    IF code.t = "NoneType" \/ code.s = "unknown" THEN "LiqPayException"
    ELSE IF code.s \in {"limit", "frod", "decline"} THEN "LiqPayAntiFraudException"
    ELSE IF IsFinancialCode(code.s) THEN "LiqPayFinancialException"
    ELSE IF StartsWith(code.s, "expired_") THEN "LiqPayExpireException"
    ELSE IF StartsWith(code.s, "err_") THEN "LiqPayNonFinancialException"
    ELSE IF StartsWith(code.s, "shop_") THEN "LiqPayNonFinancialException"
    ELSE IF EndsWith(code.s, "_not_found") \/ EndsWith(code.s, "_limit")
         THEN "LiqPayNonFinancialException"
    ELSE IF StartsWith(code.s, "payment_") THEN "LiqPayExpireException"
    ELSE IF code.s \in {"invalid_signature", "public_key_not_found",
                        "order_id_empty", "amount_limit", "wrong_amount_currency"}
         THEN "LiqPayRequestException"
    ELSE "LiqPayException"

\* details=None
NoDetails == [none |-> TRUE, d |-> EmptyDict]

\* details=d for a dict d
Details(d) == [none |-> FALSE, d |-> d]

\* mutant: the details are not stored
LiqPayExceptionInit_NoDetails(cls, code, description, details) ==
    [cls     |-> cls,
     message |-> IF Truthy(description) THEN description.s ELSE UNKNOWN_ERRMSG,
     code    |-> IF Truthy(code) THEN code.s ELSE UNKNOWN_ERRCODE,
     details |-> NoDetails]

\* LiqPayException.__init__: the fields of the exception object
LiqPayExceptionInit(cls, code, description, details) ==
    LET d == IF description.t = "NoneType" THEN description
             ELSE PyStr(Translate(Strip(description.s, {" ", "."})))
    IN [cls     |-> cls,
        message |-> IF Truthy(d) THEN d.s ELSE UNKNOWN_ERRMSG,
        code    |-> IF Truthy(code) THEN code.s ELSE UNKNOWN_ERRCODE,
        details |-> details]

\* exception(code, description, response=..., details=...)
exception(code, description, details) ==
    LiqPayExceptionInit(get_exception_cls(code), code, description, details)

\* the exception slot of a call that returned
NoException == [cls |-> "", message |-> "", code |-> "", details |-> NoDetails]

-----------------------------------------------------------------------------
(* liqpy.api.decoder.LiqpayDecoder *)

\* the place of the first c in the text x, 0 when x has no c
IndexOf(x, c) ==
    IF \E i \in 1..Len(x) : SubSeq(x, i, i) = c
    THEN CHOOSE i \in 1..Len(x) :
            SubSeq(x, i, i) = c /\ \A j \in 1..(i - 1) : SubSeq(x, j, j) # c
    ELSE 0

\* the value of the digit c
DigitValue(c) == IndexOf("0123456789", c) - 1

RECURSIVE StrToInt(_)
\* int(x) for a text x of digits
StrToInt(x) ==
    IF Len(x) = 0 THEN 0
    ELSE 10 * StrToInt(SubSeq(x, 1, Len(x) - 1)) + DigitValue(SubSeq(x, Len(x), Len(x)))

\* Decimal(value) for an int, or for the text of a number literal
DecimalOf(value) ==
    IF value.t = "str"
    THEN LET dot == IndexOf(value.s, ".")
         IN  IF dot = 0
             THEN [t |-> "Decimal", s |-> "", n |-> StrToInt(value.s)]
             ELSE [t |-> "Decimal", s |-> SubSeq(value.s, dot + 1, Len(value.s)),
                   n |-> StrToInt(SubSeq(value.s, 1, dot - 1))]
    ELSE [t |-> "Decimal", s |-> value.s, n |-> value.n]

\* self.default: the converters of the response keys used here
\* (Decimal for the amounts, noop for every key not in the table)
DecoderDefault(key, value) ==
    IF key \in {"amount", "refund_amount"}
    THEN DecimalOf(value)
    ELSE value

\* _object_pairs_hook: drop null values, convert the others
Decode(body) ==
    [k \in {x \in DOMAIN body : body[x].t # "NoneType"} |-> DecoderDefault(k, body[k])]

-----------------------------------------------------------------------------
(* liqpy.client.BaseClient._handle_response *)

Returned(data) == [kind |-> "return", data |-> data, exc |-> NoException]

Raised(e) == [kind |-> "raise", data |-> EmptyDict, exc |-> e]

\* nothing was called yet
NoOutcome == [kind |-> "none", data |-> EmptyDict, exc |-> NoException]

\* mutant: only status "success" counts as ok
IsOk_SuccessOnly(result, status) == result = PyStr("ok") /\ status = PyStr("success")

\* result == "ok" and status != "error"
IsOk(result, status) == result = PyStr("ok") /\ status # PyStr("error")

\* mutant: the tolerance is granted to action status only
HasPayment_StatusOnly(action, data) ==
    action = "status" /\ Get(data, "payment_id") # None

\* action in ("status", "data") and data.get("payment_id") is not None
HasPayment(action, data) ==
    action \in {"status", "data"} /\ Get(data, "payment_id") # None

\* mutant: status "failure" is not taken for an error
IsError_NoFailure(result, status) ==
    status = PyStr("error") \/ result = PyStr("error")

\* mutant: every result other than "ok" is taken for an error
IsError_NotOk(result, status) ==
    status \in {PyStr("error"), PyStr("failure")} \/ result # PyStr("ok")

\* status in ("error", "failure") or result == "error"
IsError(result, status) ==
    status \in {PyStr("error"), PyStr("failure")} \/ result = PyStr("error")

_handle_response(resp, action) ==
    IF ~resp.json
    THEN Raised(exception(None, None, NoDetails))
    ELSE
      LET data0    == Decode(resp.body)
          result   == Get(data0, "result")
          data1    == Without(data0, {"result"})
          status   == Get(data1, "status")
          code1    == Get(data1, "err_code")
          data2    == Without(data1, {"err_code"})
          \* `or` evaluates data.pop("code", None) only when err_code is falsy
          err_code == IF Truthy(code1) THEN code1 ELSE Get(data2, "code")
          data     == IF Truthy(code1) THEN data2 ELSE Without(data2, {"code"})
      IN  IF IsOk(result, status)
          THEN Returned(data)
          ELSE IF HasPayment(action, data)
          THEN Returned(data)
          ELSE IF IsError(result, status)
          THEN Raised(exception(err_code,
                                Get(data, "err_description"),
                                Details(Without(data, {"err_description"}))))
          ELSE Returned(data)

-----------------------------------------------------------------------------
(* liqpy.convert *)

\* round(x / 1000): Python rounds an exact half to the even neighbour
RoundHalfEven(us) ==
    LET q == us \div 1000
        r == us % 1000
    IN  IF r > 500 \/ (r = 500 /\ q % 2 = 1) THEN q + 1 ELSE q

\* the ISO-8601 strings known to datetime.fromisoformat here, with their
\* instants in microseconds; on any other string it raises ValueError
IsoStrings == {"1970-01-01T00:00:00.002+00:00"}

FromIsoFormat(x) == IF x = "1970-01-01T00:00:00.002+00:00" THEN 2000 ELSE 0

\* the instants (microseconds since the epoch) among those used here for
\* which value.timestamp() * 1e3, computed in double arithmetic, is the
\* double just below the exact product: 0.5015 * 1e3 is 501.49999999999994
\* and 1.001 * 1e3 is 1000.9999999999999
FloatBelow == {501500, 1001000}

\* int(round(value.timestamp() * 1e3)) for the instant us
RoundMillis(us) ==
    IF us \in FloatBelow /\ us % 1000 = 500 THEN us \div 1000 ELSE RoundHalfEven(us)

\* int(value.timestamp() * 1000) for the instant us >= 0
TruncMillis(us) ==
    IF us \in FloatBelow /\ us % 1000 = 0 THEN (us \div 1000) - 1 ELSE us \div 1000

\* mutant: the milliseconds are taken for seconds
datetime_from_millis_Seconds(value) == DateTime(value * 1000000, "UTC")

\* datetime_from_millis(value): datetime.fromtimestamp(value / 1000, tz=UTC)
datetime_from_millis(value) == DateTime(value * 1000, "UTC")

Converted(v) == [ok |-> TRUE, exc |-> "", value |-> v]

Failed(e) == [ok |-> FALSE, exc |-> e, value |-> None]

\* to_datetime, for the value types used here; clock is datetime.now(UTC)
to_datetime(value, clock) ==
    CASE value.t = "datetime" -> Converted(value)
      [] value.t = "str" ->
            IF value.s \in IsoStrings
            THEN Converted(DateTime(FromIsoFormat(value.s), "UTC"))
            ELSE Failed("ValueError")
      [] value.t = "int" -> Converted(DateTime(value.n * 1000, "UTC"))
      [] value.t = "timedelta" -> Converted(DateTime(clock + value.n, "UTC"))
      [] OTHER -> Failed("NotImplementedError")

\* to_milliseconds
to_milliseconds(value, clock) ==
    CASE value.t = "int" -> Converted(value)
      [] value.t = "datetime" -> Converted(PyInt(RoundMillis(value.n)))
      [] value.t \in {"str", "timedelta"} ->
            LET d == to_datetime(value, clock)
            IN  IF d.ok THEN Converted(PyInt(RoundMillis(d.value.n))) ELSE d
      [] OTHER -> Failed("NotImplementedError")

-----------------------------------------------------------------------------
(* liqpy.api.validation *)

Error(key, exc, msg) == [key |-> key, exc |-> exc, msg |-> msg]

\* a field validator returned value
Valid(value) == [errors |-> {}, value |-> value]

\* a field validator raised exc(msg)
Invalid(key, exc, msg) == [errors |-> {Error(key, exc, msg)}, value |-> None]

validate_amount(value, name) ==
    IF value.t = "Decimal"
    THEN IF value.n > 0 \/ (value.n = 0 /\ StripZeros(value.s) # "") THEN Valid(value)
         ELSE Invalid(name, "ValueError", "must be positive")
    ELSE Invalid(name, "TypeError", "must be a decimal number")

\* the wrapper of validate_datetype around the conversion result conv = fn(value)
validate_datetype(value, conv, name) ==
    IF value.t \in {"datetime", "timedelta", "date", "int", "float", "str", "tuple"}
    THEN IF conv.ok THEN Valid(conv.value)
         ELSE Invalid(name, "ValueError", "Invalid")
    ELSE Invalid(name, "TypeError", "must be one of: datetime, timedelta, date, ...")

validate_dateedge(value, name, clock) ==
    validate_datetype(value, to_milliseconds(value, clock), name)

validate_datetime(value, name, clock) ==
    validate_datetype(value, to_datetime(value, clock), name)

\* the text after the "//" that starts rest, "" when rest starts otherwise
AfterSlashes(rest) == IF StartsWith(rest, "//") THEN SubSeq(rest, 3, Len(rest)) ELSE ""

\* the scheme of x and the text after "//", for the place colon of the first
\* ":" of x (0 for none)
SchemeAndRest(x, colon) ==
    [scheme |-> IF colon > 1 THEN SubSeq(x, 1, colon - 1) ELSE "",
     after  |-> AfterSlashes(IF colon > 1 THEN SubSeq(x, colon + 1, Len(x)) ELSE x)]

\* the netloc: the text after "//" up to the place slash of its first "/"
Netloc(after, slash) == IF slash = 0 THEN after ELSE SubSeq(after, 1, slash - 1)

\* urlparse(x): the scheme is the text before the first ":", the netloc the
\* text between "//" and the next "/" (texts without "?", "#" and with a
\* lower-case scheme)
urlparse(x) ==
    CHOOSE r \in {[scheme |-> u.scheme, netloc |-> Netloc(u.after, IndexOf(u.after, "/"))]
                    : u \in {SchemeAndRest(x, colon) : colon \in {IndexOf(x, ":")}}} : TRUE

\* the two checks of validate_url on r = urlparse(value or "")
CheckUrl(r, value, name) ==
    IF r.netloc = "" THEN Invalid(name, "ValueError", "must be a valid URL.")
    ELSE IF r.scheme \notin {"http", "https"}
    THEN Invalid(name, "ValueError", "Invalid URL scheme. Must be http or https.")
    ELSE Valid(value)

validate_url(value, name) ==
    CHOOSE v \in {CheckUrl(r, value, name) : r \in {urlparse(value.s)}} : TRUE

\* the fields of the dataclass SplitRule
SplitRuleFields == {"public_key", "amount", "commission_payer", "server_url"}

\* f"split_rules[{i}]" for the rule at the place p = i + 1 of the list
RuleName(p) == "split_rules[" \o SubSeq("0123456789", p, p) \o "]"

\* SplitRule(**rule)
SplitRule(d) == [t |-> "SplitRule", s |-> "", n |-> 0, d |-> d]

\* SplitRules(validated_rules)
SplitRules(items) == [t |-> "SplitRules", s |-> "", n |-> 0, items |-> items]

\* the errors that the loop body of split_rules appends for the rule at p
RuleErrors(rule0, p) ==
    IF rule0.t \notin {"SplitRule", "dict"}
    THEN {Error(RuleName(p), "TypeError", "Must be a SplitRule or dict instance.")}
    ELSE IF rule0.t = "dict" /\ DOMAIN rule0.d # SplitRuleFields
    THEN {Error(RuleName(p), "TypeError", "Invalid rule.")}
    ELSE LET rule == rule0.d
         IN  (IF rule.public_key.t # "str"
              THEN {Error(RuleName(p) \o ".public_key", "TypeError", "Must be a string.")}
              ELSE {})
             \cup validate_amount(rule.amount, RuleName(p) \o ".amount").errors
             \cup validate_url(rule.server_url, RuleName(p) \o ".server_url").errors
             \cup (IF rule.commission_payer \notin {PyStr("sender"), PyStr("receiver")}
                   THEN {Error(RuleName(p) \o ".commission_payer", "ValueError",
                               "Must be 'sender' or 'receiver'.")}
                   ELSE {})

\* the end of split_rules with the errors collected by the loop
RulesResult(value, errors) ==
    IF errors = {}
    THEN Valid(SplitRules([p \in DOMAIN value.items |-> SplitRule(value.items[p].d)]))
    ELSE [errors |-> errors, value |-> None]

\* LiqpayValidator.split_rules, for a list or a value that is not iterable
split_rules(value) ==
    IF value.t # "list"
    THEN Invalid("split_rules", "TypeError", "split_rules must be an iterable.")
    ELSE CHOOSE v \in {RulesResult(value, errors) :
                         errors \in {UNION {RuleErrors(value.items[p], p)
                                              : p \in DOMAIN value.items}}} : TRUE

validate_string(value, max_len, name) ==
    IF value.t = "str"
    THEN IF Len(value.s) <= max_len THEN Valid(value)
         ELSE Invalid(name, "ValueError", "must be less than max_len characters")
    ELSE Invalid(name, "TypeError", "must be a string")

\* the number of days of the month of the year
DaysInMonth(year, month) ==
    IF month = 2 THEN (IF year % 4 = 0 /\ (year % 100 # 0 \/ year % 400 = 0) THEN 29 ELSE 28)
    ELSE IF month \in {4, 6, 9, 11} THEN 30 ELSE 31

\* date(year, month, day)
PyDate(year, month, day) == [t |-> "date", s |-> "", n |-> year * 10000 + month * 100 + day]

\* an instance of the dataclass DetailAddenda with the fields d
DetailAddenda(d) == [t |-> "DetailAddenda", s |-> "", n |-> 0, d |-> d]

\* DetailAddenda.from_dict(data) for a mapping data with the seven wire keys
DetailAddenda_from_dict(data) ==
    IF data.t # "dict" THEN Failed("TypeError")
    ELSE LET s  == data.d["departureDate"].s
             yy == SubSeq(s, 1, 2)
             mm == SubSeq(s, 3, 4)
             dd == SubSeq(s, 5, Len(s))
         IN  IF Len(s) >= 5 /\ IsDigit(yy) /\ IsDigit(mm) /\ IsDigit(dd)
                /\ StrToInt(mm) \in 1..12
                /\ StrToInt(dd) \in 1..DaysInMonth(2000 + StrToInt(yy), StrToInt(mm))
             THEN Converted(DetailAddenda(
                     [air_line         |-> data.d["airLine"],
                      ticket_number    |-> data.d["ticketNumber"],
                      passenger_name   |-> data.d["passengerName"],
                      flight_number    |-> data.d["flightNumber"],
                      origin_city      |-> data.d["originCity"],
                      destination_city |-> data.d["destinationCity"],
                      departure_date   |-> PyDate(2000 + StrToInt(yy), StrToInt(mm),
                                                  StrToInt(dd))]))
             ELSE Failed("ValueError")

\* the string fields that the dae validator checks: attribute, wire key and
\* max_len
DaeFields ==
    {[attr |-> "air_line", wire |-> "airLine", max |-> 4],
     [attr |-> "ticket_number", wire |-> "ticketNumber", max |-> 15],
     [attr |-> "passenger_name", wire |-> "passengerName", max |-> 29],
     [attr |-> "flight_number", wire |-> "flightNumber", max |-> 5],
     [attr |-> "origin_city", wire |-> "originCity", max |-> 5],
     [attr |-> "destination_city", wire |-> "destinationCity", max |-> 5]}

\* DetailAddenda.from_dict(**value): the classmethod has the one parameter
\* data, so the call is from_dict(value["data"]) for a mapping with the only
\* key data and a TypeError for a mapping with other keys or none
FromDictKwargs(value) ==
    IF DOMAIN value.d = {"data"} THEN DetailAddenda_from_dict(value.d["data"])
    ELSE Failed("TypeError")

\* the six length checks of dae on the instance made.value, or the error of
\* the conversion
DaeResult(made, converted) ==
    IF ~made.ok THEN Invalid("dae", made.exc, "DetailAddenda.from_dict()")
    ELSE CHOOSE v \in {IF errors = {} THEN Valid(made.value)
                       ELSE [errors |-> errors, value |-> None]
                         : errors \in {UNION {validate_string(made.value.d[f.attr], f.max,
                                                  "dae." \o (IF converted THEN f.attr
                                                             ELSE f.wire)).errors
                                                : f \in DaeFields}}} : TRUE

\* LiqpayValidator.dae
dae(value) ==
    IF value.t \notin {"DetailAddenda", "dict"}
    THEN Invalid("dae", "TypeError", "dae must be a DetailAddenda or dict instance.")
    ELSE CHOOSE v \in {DaeResult(made, value.t = "dict")
                         : made \in {IF value.t = "dict" THEN FromDictKwargs(value)
                                     ELSE Converted(value)}} : TRUE

validate_one(value) == Valid(IF Truthy(value) THEN PyInt(1) ELSE None)

\* getattr(self, key, noop)(value): the validator method of a key
FieldValidator(key, value, clock) ==
    CASE key = "action" ->
            IF value.t = "str" THEN Valid(value)
            ELSE Invalid(key, "TypeError", "action must be a string")
      [] key = "amount" -> validate_amount(value, "amount")
      [] key = "currency" ->
            IF value \in {PyStr("USD"), PyStr("UAH"), PyStr("EUR")} THEN Valid(value)
            ELSE Invalid(key, "ValueError", "currency must be USD, EUR or UAH")
      [] key = "date_from" -> validate_dateedge(value, "date_from", clock)
      [] key = "date_to" -> validate_dateedge(value, "date_to", clock)
      [] key = "subscribe" -> validate_one(value)
      [] key = "letter_of_credit" -> validate_one(value)
      [] key = "subscribe_periodicity" ->
            IF value \in {PyStr("month"), PyStr("year")} THEN Valid(value)
            ELSE Invalid(key, "ValueError", "subscribe_periodicity must be month or year")
      [] key = "subscribe_date_start" ->
            validate_datetime(value, "subscribe_date_start", clock)
      [] key = "ds_trans_id" ->
            IF value.t = "str" THEN Valid(value)
            ELSE Invalid(key, "TypeError", "dsTransID must be a string")
      [] key = "version" ->
            IF value.t \in {"int", "bool"}
            THEN IF value.n > 0 THEN Valid(value)
                 ELSE Invalid(key, "ValueError", "version must be greater than 0")
            ELSE Invalid(key, "TypeError", "version must be an integer")
      [] key = "public_key" ->
            IF value.t = "str" THEN Valid(value)
            ELSE Invalid(key, "TypeError", "public_key must be a string")
      [] key = "order_id" ->
            IF value.t = "UUID" THEN Valid(value)
            ELSE IF value.t = "str"
            THEN IF Len(value.s) <= 255 THEN Valid(value)
                 ELSE Invalid(key, "ValueError", "order_id must be less than 255 characters")
            ELSE Invalid(key, "TypeError", "order_id must be a string or UUID")
      [] key = "description" ->
            IF value.t = "str"
            THEN IF Len(value.s) <= 2048 THEN Valid(value)
                 ELSE Invalid(key, "ValueError", "description must be less than 2048 characters")
            ELSE Invalid(key, "TypeError", "description must be a string")
      [] key = "recurringbytoken" -> validate_one(value)
      [] key = "resp_format" ->
            IF value \in {PyStr("json"), PyStr("csv"), PyStr("xml")} THEN Valid(value)
            ELSE Invalid(key, "ValueError", "format must be json, csv or xml")
      [] key = "verifycode" -> Valid(IF Truthy(value) THEN PyStr("Y") ELSE None)
      [] key = "split_rules" -> split_rules(value)
      [] key = "dae" -> dae(value)
      [] OTHER -> Valid(value)

PeriodicityRequired ==
    Error("subscribe_periodicity", "ValueError",
          "subscribe_periodicity is required for action 'subscribe'")

DateFromRequired ==
    Error("date_from", "ValueError", "date_from is required for action 'reports'")

DateToRequired ==
    Error("date_to", "ValueError", "date_to is required for action 'reports'")

DateOrder ==
    Error("date_from", "ValueError", "date_from must be earlier than date_to")

VReturn(request) == [kind |-> "return", request |-> request, errors |-> {}]

VRaise(kind, errors) == [kind |-> kind, request |-> EmptyDict, errors |-> errors]

NoVResult == [kind |-> "none", request |-> EmptyDict, errors |-> {}]

\* mutant: subscribe_date_start is always set to the current time
PreAction_AlwaysNow(request, action, clock) ==
    IF action = PyStr("subscribe")
    THEN Put(Put(request, "subscribe", PyBool(TRUE)),
             "subscribe_date_start", DateTime(clock, "UTC"))
    ELSE IF action = PyStr("letter_of_credit")
    THEN Put(request, "letter_of_credit", PyBool(TRUE))
    ELSE request

\* the pre-action pass: the request after the injections of the action
PreAction(request, action, clock) ==
    IF action = PyStr("subscribe")
    THEN LET r == Put(request, "subscribe", PyBool(TRUE))
         IN  IF Get(r, "subscribe_date_start") = None
             THEN Put(r, "subscribe_date_start", DateTime(clock, "UTC"))
             ELSE r
    ELSE IF action = PyStr("letter_of_credit")
    THEN Put(request, "letter_of_credit", PyBool(TRUE))
    ELSE request

\* mutant: equal bounds are accepted (> in place of >=)
PostAction_Strict(request, action) ==
    IF action = PyStr("reports")
    THEN LET date_from == Get(request, "date_from")
             date_to   == Get(request, "date_to")
         IN  (IF date_from = None THEN {DateFromRequired} ELSE {})
             \cup (IF date_to = None THEN {DateToRequired} ELSE {})
             \cup (IF date_from # None /\ date_to # None /\ date_from.n > date_to.n
                   THEN {DateOrder} ELSE {})
    ELSE {}

\* the errors of the post-action pass on the validated request
PostAction(request, action) ==
    IF action = PyStr("reports")
    THEN LET date_from == Get(request, "date_from")
             date_to   == Get(request, "date_to")
         IN  (IF date_from = None THEN {DateFromRequired} ELSE {})
             \cup (IF date_to = None THEN {DateToRequired} ELSE {})
             \cup (IF date_from # None /\ date_to # None /\ date_from.n >= date_to.n
                   THEN {DateOrder} ELSE {})
    ELSE {}

\* the assert of the post-action pass fails
PostAssertFails(request, action) ==
    /\ action = PyStr("reports")
    /\ Get(request, "date_from") # None
    /\ Get(request, "date_to") # None
    /\ ~(Get(request, "date_from").t = "int" /\ Get(request, "date_to").t = "int")

\* rename keys to match API requirements
Rename(request) ==
    IF Get(request, "ds_trans_id") # None
    THEN Put(Without(request, {"ds_trans_id"}), "dsTransID", request["ds_trans_id"])
    ELSE Without(request, {"ds_trans_id"})

\* the dict that the name request is bound to when __call__ ends: the copy
\* without the None values after the injections, the conversions and the
\* renaming
WorkingDict(request0, clock) ==
    LET request1 == [k \in {x \in DOMAIN request0 : request0[x] # None} |-> request0[k]]
        request2 == PreAction(request1, Get(request1, "action"), clock)
        checked  == [k \in DOMAIN request2 |-> FieldValidator(k, request2[k], clock)]
    IN  Rename([k \in DOMAIN request2 |->
                  IF checked[k].errors = {} /\ checked[k].value # None
                  THEN checked[k].value ELSE request2[k]])

\* mutant: the validator works on the dict of the caller
CallerAfter_InPlace(request0, clock) == WorkingDict(request0, clock)

\* the dict of the caller after __call__: the first statement binds the name
\* request to a new dict, every later write goes to that dict and the dict
\* of the caller is only read
CallerAfter(request0, clock) == request0

\* the end of __call__: request2 is the request after the injections,
\* checked the result of the validator of each of its fields, pre the errors
\* of the pre-action pass.  errors is the set of the collected exceptions
\* (their order is the iteration order of the caller's dict).
Collected(request2, checked, pre, action) ==
    LET \* request[key] = value only when the validator returned a value
        request3 == [k \in DOMAIN request2 |->
                        IF checked[k].errors = {} /\ checked[k].value # None
                        THEN checked[k].value ELSE request2[k]]
        field    == UNION {checked[k].errors : k \in DOMAIN request2}
        errors   == pre \cup field \cup PostAction(request3, action)
    IN  IF PostAssertFails(request3, action) THEN VRaise("AssertionError", {})
        ELSE IF errors = {} THEN VReturn(Rename(request3))
        ELSE VRaise("ExceptionGroup", errors)

\* LiqpayValidator.__call__; clock is the value of datetime.now(UTC).
LiqpayValidator(request0, clock) ==
    LET request1 == [k \in {x \in DOMAIN request0 : request0[x] # None} |-> request0[k]]
        action   == Get(request1, "action")
        pre      == IF action = PyStr("subscribe")
                       /\ "subscribe_periodicity" \notin DOMAIN request1
                    THEN {PeriodicityRequired} ELSE {}
    IN  CHOOSE result \in
          {Collected(request2, checked, pre, action)
             : <<request2, checked>> \in
                 {<<r, [k \in DOMAIN r |-> FieldValidator(k, r[k], clock)]>>
                    : r \in {PreAction(request1, action, clock)}}} : TRUE

-----------------------------------------------------------------------------
(* liqpy.api.request *)

VERSION == 3

RECURSIVE IntToStr(_)
\* str(n) for a natural number n
IntToStr(n) ==
    LET d == SubSeq("0123456789", (n % 10) + 1, (n % 10) + 1)
    IN  IF n < 10 THEN d ELSE IntToStr(n \div 10) \o d

\* dict.setdefault(k, v)
SetDefault(d, k, v) == IF k \in DOMAIN d THEN d ELSE Put(d, k, v)

RReturn(params) == [kind |-> "return", params |-> params]

RRaise(kind) == [kind |-> kind, params |-> EmptyDict]

NoRResult == RRaise("none")

\* the injections of case "subscribe" after its assert
SubscribeParams(params, clock) ==
    LET p == Put(params, "subscribe", PyBool(TRUE))
    IN  IF Get(p, "subscribe_date_start") = None
        THEN Put(p, "subscribe_date_start", DateTime(clock, ""))
        ELSE p

\* uuid.UUID with the canonical text x
PyUUID(x) == [t |-> "UUID", s |-> x, n |-> 0]

\* mutant: an integer opid is routed to order_id as well
RouteOpid_AllToOrder(params, liqpay_id) ==
    IF liqpay_id.t \in {"str", "UUID"}
    THEN SetDefault(params, "order_id", liqpay_id)
    ELSE IF liqpay_id.t = "int"
    THEN SetDefault(params, "order_id", PyStr(IntToStr(liqpay_id.n)))
    ELSE params

\* the routing of the popped opid: params after the isinstance chain
RouteOpid(params, liqpay_id) ==
    IF liqpay_id.t \in {"str", "UUID"}
    THEN SetDefault(params, "order_id", liqpay_id)
    ELSE IF liqpay_id.t = "int"
    THEN SetDefault(params, "payment_id", PyStr(IntToStr(liqpay_id.n)))
    ELSE params

\* request(action, public_key, version=VERSION, **params); clock is the
\* local time datetime.now() (a naive datetime)
request(action, public_key, version, params0, clock) ==
    LET params1   == Put(Put(Put(params0, "action", PyStr(action)),
                             "public_key", PyStr(public_key)),
                         "version", PyInt(version))
        liqpay_id == Get(params1, "opid")
        params2   == Without(params1, {"opid"})
        params3   == RouteOpid(params2, liqpay_id)
    IN  IF action = "subscribe"
        THEN IF "subscribe_periodicity" \notin DOMAIN params3
             THEN RRaise("AssertionError")
             ELSE RReturn(SubscribeParams(params3, clock))
        ELSE IF action = "letter_of_credit"
        THEN RReturn(Put(params3, "letter_of_credit", PyBool(TRUE)))
        ELSE RReturn(params3)

-----------------------------------------------------------------------------
(* dicts in insertion order *)

\* one (key, value) pair of dict.items()
Item(k, v) == [k |-> k, v |-> v]

\* the key set of the items
Keys(items) == {items[i].k : i \in DOMAIN items}

\* the dict of the items (the keys of the items are distinct)
ToDict(items) ==
    [k \in Keys(items) |-> items[CHOOSE i \in DOMAIN items : items[i].k = k].v]

\* the parameter names in the order of sorted(): code point order, the
\* capital T of dsTransID before the underscore of ds_trans_id
KeyOrder ==
    <<"action", "amount", "currency", "date_from", "date_to", "description",
      "dsTransID", "ds_trans_id", "expired_date", "letter_of_credit", "order_id",
      "payment_id", "paytypes", "public_key", "recurringbytoken", "resp_format",
      "subscribe", "subscribe_date_start", "subscribe_periodicity", "verifycode",
      "version">>

\* the items of the dict d in sorted key order
SortedItems(d) ==
    LET ks == SelectSeq(KeyOrder, LAMBDA k : k \in DOMAIN d)
    IN  [i \in DOMAIN ks |-> Item(ks[i], d[ks[i]])]

\* the items without the None values, in their order
FilterNone(items) == SelectSeq(items, LAMBDA it : it.v # None)

-----------------------------------------------------------------------------
(* liqpy.util.convert, the converters of the Preprocessor *)

\* to_datetime: str by datetime.fromisoformat, a Number as seconds
util_to_datetime(value, clock) ==
    CASE value.t = "datetime" -> Converted(value)
      [] value.t = "str" ->
            IF value.s \in IsoStrings
            THEN Converted(DateTime(FromIsoFormat(value.s), "UTC"))
            ELSE Failed("ValueError")
      [] value.t \in {"int", "bool", "Decimal"} ->
            Converted(DateTime(value.n * 1000000, "UTC"))
      [] value.t = "timedelta" -> Converted(DateTime(clock + value.n, "UTC"))
      [] OTHER -> Failed("NotImplementedError")

\* to_milliseconds: int(value.timestamp() * 1000) cuts the fraction off
util_to_milliseconds(value, clock) ==
    CASE value.t \in {"int", "bool"} -> Converted(value)
      [] value.t = "datetime" -> Converted(PyInt(TruncMillis(value.n)))
      [] value.t \in {"str", "timedelta"} ->
            LET d == util_to_datetime(value, clock)
            IN  IF d.ok THEN Converted(PyInt(TruncMillis(d.value.n))) ELSE d
      [] OTHER -> Failed("NotImplementedError")

-----------------------------------------------------------------------------
(* liqpy.api.preprocess *)

\* to_one: 1 for a truthy value; the function ends without return (None)
\* for a falsy one
to_one(value) == IF Truthy(value) THEN PyInt(1) ELSE None

\* Preprocessor.verifycode
verifycode(value) == IF Truthy(value) THEN PyStr("Y") ELSE None

\* getattr(self, key, None)(value): the converter of a key, when it has one
PreprocessField(key, value, clock) ==
    CASE key \in {"date_from", "date_to"} -> util_to_milliseconds(value, clock)
      [] key \in {"expired_date", "subscribe_date_start", "letter_of_credit_date"} ->
            util_to_datetime(value, clock)
      [] key \in {"subscribe", "letter_of_credit", "recurringbytoken"} ->
            Converted(to_one(value))
      [] key = "verifycode" -> Converted(verifycode(value))
      [] OTHER -> Converted(value)

\* BasePreprocessor.__call__: o[key] = fn(value) for every key, in place;
\* any exception is raised again as Exception("Failed to convert ...")
Preprocessor(items, clock) ==
    LET conv == [i \in DOMAIN items |-> PreprocessField(items[i].k, items[i].v, clock)]
    IN  IF \E i \in DOMAIN items : ~conv[i].ok
        THEN [ok |-> FALSE, items |-> <<>>]
        ELSE [ok |-> TRUE,
              items |-> [i \in DOMAIN items |-> Item(items[i].k, conv[i].value)]]

-----------------------------------------------------------------------------
(* JSON texts.  A JSON object is the sequence of its members in the order  *)
(* of the text, every member a key with a token; the separators are fixed. *)

JStr(x) == [j |-> "string", s |-> x, n |-> 0]

JInt(x) == [j |-> "int", s |-> "", n |-> x]

\* the float literal x.f
JFloat(x, f) == [j |-> "float", s |-> f, n |-> x]

JTrue == [j |-> "true", s |-> "", n |-> 0]

JFalse == [j |-> "false", s |-> "", n |-> 0]

JNull == [j |-> "null", s |-> "", n |-> 0]

\* base64.b64encode, a bijection between texts and their encodings
b64encode(text) == [b64 |-> text]

\* base64.b64decode
b64decode(data) == data.b64

\* two decimal digits
TwoDigits(n) == IF n < 10 THEN "0" \o IntToStr(n) ELSE IntToStr(n)

\* strftime(DATE_FORMAT) of the instant us (microseconds since the epoch, in
\* the first hour of the epoch) in UTC: the fraction of the second is cut off
FormatDate(us) ==
    "1970-01-01 00:" \o TwoDigits((us \div 60000000) % 60) \o ":"
                     \o TwoDigits((us \div 1000000) % 60)

-----------------------------------------------------------------------------
(* liqpy.api.encoder *)

\* an encoder: liqpay says that LiqpayEncoder.default is in use (json's own
\* JSONEncoder.default raises TypeError), sort_keys is the option of json
JSONEncoderDefault == [liqpay |-> FALSE, sort_keys |-> FALSE]

\* LiqpayEncoder(validator): sort_keys=True, separators=SEPARATORS
LiqpayEncoder == [liqpay |-> TRUE, sort_keys |-> TRUE]

\* the fraction digits of repr(float(o)) for a Decimal o = n.f with n > 0
\* that is no integer: a double holds every number of up to 15 significant
\* digits, and its repr has at most 17; the digits of a longer number
\* after the 17th are lost (rounding is modelled by cutting, which is what
\* it amounts to for the amounts used here)
FloatFraction(n, f) ==
    LET whole == Len(IntToStr(n))
        keep  == IF whole < 17 THEN 17 - whole ELSE 0
        cut   == IF whole + Len(f) > 17 THEN StripZeros(SubSeq(f, 1, keep)) ELSE f
    IN  IF cut = "" THEN "0" ELSE cut

\* LiqpayEncoder.default for a Decimal: n if d == 1 else float(o)
EncodeDecimal(o) ==
    LET f == StripZeros(o.s)
    IN  IF f = "" THEN JInt(o.n) ELSE JFloat(o.n, FloatFraction(o.n, f))

\* the token of one value; encoder.default is asked for every type that
\* json does not know
EncodeValue(o, encoder) ==
    CASE o.t = "str" -> Converted(JStr(o.s))
      [] o.t = "int" -> Converted(JInt(o.n))
      [] o.t = "bool" -> Converted(IF o.n = 1 THEN JTrue ELSE JFalse)
      [] o.t = "NoneType" -> Converted(JNull)
      [] o.t = "Decimal" /\ encoder.liqpay -> Converted(EncodeDecimal(o))
      [] o.t = "datetime" /\ encoder.liqpay -> Converted(JStr(FormatDate(o.n)))
      [] o.t = "UUID" /\ encoder.liqpay -> Converted(JStr(o.s))
      [] OTHER -> Failed("TypeError")

\* JSONEncoder.encode of a dict given by its items
EncodeJSON(items, encoder) ==
    LET ordered == IF encoder.sort_keys THEN SortedItems(ToDict(items)) ELSE items
        conv    == [i \in DOMAIN ordered |-> EncodeValue(ordered[i].v, encoder)]
    IN  IF \E i \in DOMAIN ordered : ~conv[i].ok
        THEN Failed("TypeError")
        ELSE Converted([i \in DOMAIN ordered |-> Item(ordered[i].k, conv[i].value)])

-----------------------------------------------------------------------------
(* liqpy.api: sign, encode *)

\* sign(data, key) = b64encode(sha1(key + data + key).digest()); SHA-1 is
\* taken as free of collisions: the digest stands for the hashed text
sign(data, key) == b64encode([sha1 |-> <<key, data, key>>])

\* the signature slot of a call that makes no signature
NoSignature == b64encode(<<>>)

EReturn(data) == [kind |-> "return", data |-> data, signature |-> NoSignature]

ERaise(kind) == [kind |-> kind, data |-> b64encode(<<>>), signature |-> NoSignature]

NoEResult == ERaise("none")

\* mutant: the validator is not called
encode_NoValidator(params, encoder, preprocessor, validator, clock) ==
    LET params1 == FilterNone(params)
        pre     == IF preprocessor THEN Preprocessor(params1, clock)
                   ELSE [ok |-> TRUE, items |-> params1]
        json    == EncodeJSON(pre.items, encoder)
    IN  IF ~pre.ok THEN ERaise("Exception")
        ELSE IF ~json.ok THEN ERaise(json.exc)
        ELSE EReturn(b64encode(json.value))

\* encode(params, filter_none=True, encoder=..., preprocessor=..., validator=...);
\* preprocessor and validator say whether one was passed.  The preprocessor
\* changes params in place; the dict that validator(params) returns is not used.
encode(params, encoder, preprocessor, validator, clock) ==
    LET params1 == FilterNone(params)
        pre     == IF preprocessor THEN Preprocessor(params1, clock)
                   ELSE [ok |-> TRUE, items |-> params1]
        checked == IF validator THEN LiqpayValidator(ToDict(pre.items), clock)
                   ELSE VReturn(ToDict(pre.items))
        json    == EncodeJSON(pre.items, encoder)
    IN  IF ~pre.ok THEN ERaise("Exception")
        ELSE IF checked.kind # "return" THEN ERaise(checked.kind)
        ELSE IF ~json.ok THEN ERaise(json.exc)
        ELSE EReturn(b64encode(json.value))

\* the keys that LiqpayValidator adds to a request, in the order it adds them
AddedKeys == <<"subscribe", "subscribe_date_start", "letter_of_credit", "dsTransID">>

\* the items of the dict d that the validator returned for the request
\* items: the keys of the request in their order, then the added keys
ValidatedItems(items, d) ==
    LET kept  == SelectSeq(items, LAMBDA it : it.k \in DOMAIN d)
        added == SelectSeq(AddedKeys, LAMBDA k : k \in DOMAIN d /\ k \notin Keys(items))
    IN  [i \in DOMAIN kept |-> Item(kept[i].k, d[kept[i].k])]
        \o [i \in DOMAIN added |-> Item(added[i], d[added[i]])]

\* LiqpayEncoder.__call__(request): b64encode(self.encode(self.validator(request)))
LiqpayEncoderCall(request0, encoder, clock) ==
    LET checked == LiqpayValidator(ToDict(request0), clock)
        json    == EncodeJSON(ValidatedItems(request0, checked.request), encoder)
    IN  IF checked.kind # "return" THEN ERaise(checked.kind)
        ELSE IF ~json.ok THEN ERaise(json.exc)
        ELSE EReturn(b64encode(json.value))

-----------------------------------------------------------------------------
(* decoding: json with parse_float=str, parse_int=int and the pairs hook *)

\* the Python value of a token
ParseValue(token) ==
    CASE token.j = "string" -> PyStr(token.s)
      [] token.j = "int" -> PyInt(token.n)
      [] token.j = "float" -> PyStr(IntToStr(token.n) \o "." \o token.s)
      [] token.j = "true" -> PyBool(TRUE)
      [] token.j = "false" -> PyBool(FALSE)
      [] OTHER -> None

\* LiqpayDecoder.__call__(s): self.decode(b64decode(s).decode())
LiqpayDecoderCall(data) ==
    LET doc == b64decode(data)
    IN  Decode(ToDict([i \in DOMAIN doc |-> Item(doc[i].k, ParseValue(doc[i].v))]))

-----------------------------------------------------------------------------
(* liqpy.client.BaseClient: the keys, encode, callback *)

\* the keys the client was made with
PublicKey == "sandbox_i0000000"

PrivateKey == "sandbox_private"

\* BaseClient.sign(data)
client_sign(data) == sign(data, PrivateKey)

\* BaseClient.is_valid(data, signature)
is_valid(data, signature) == client_sign(data) = signature

\* BaseClient.encode(action, **kwargs): the pair (data, signature).  The
\* client encodes with its validator, its preprocessor and its encoder,
\* an encoder that sorts the keys.
client_encode(action, kwargs, clock) ==
    LET built == request(action, PublicKey, VERSION, kwargs, clock)
        data  == encode(SortedItems(built.params), LiqpayEncoder, TRUE, TRUE, clock)
    IN  IF built.kind # "return" THEN ERaise(built.kind)
        ELSE IF data.kind # "return" THEN data
        ELSE [data EXCEPT !.signature = client_sign(data.data)]

CReturn(result) == [kind |-> "return", result |-> result, code |-> ""]

CRaise(kind, code) == [kind |-> kind, result |-> EmptyDict, code |-> code]

NoCResult == CRaise("none", "")

\* BaseClient._callback(data, signature, verify=True); verify() is
\* assert self.is_valid(data, signature), "Invalid signature"
_callback(data, signature, verify) ==
    IF verify /\ ~is_valid(data, signature)
    THEN CRaise("AssertionError", "")
    ELSE CReturn(LiqpayDecoderCall(data))

\* BaseClient.callback(data, signature, verify=True): str arguments are
\* encoded to bytes, a version mismatch is logged only
callback(data, signature, verify) == _callback(data, signature, verify)

\* LiqpayDecoder.callback(data, signature, private_key)
DecoderCallback(data, signature, private_key) ==
    IF sign(data, private_key) = signature
    THEN CReturn(LiqpayDecoderCall(data))
    ELSE CRaise("LiqPayRequestException", "invalid_signature")

-----------------------------------------------------------------------------
(* liqpy.client.Client: request, reports, checkout *)

CHECKOUT_ACTIONS == {"auth", "pay", "hold", "subscribe", "paydonate"}

\* payload(data=data, signature=signature): the form body of the POST
payload(data, signature) == [data |-> data, signature |-> signature]

NoContent == payload(b64encode(<<>>), NoSignature)

\* the keyword arguments that a method of the client passes on to
\* self.payload: reports names its three itself, checkout gives
\* expired_date and paytypes their default None
PayloadKwargs(method, kwargs, format) ==
    CASE method = "reports" ->
            Put(Put(Put(EmptyDict, "date_from", Get(kwargs, "date_from")),
                    "date_to", Get(kwargs, "date_to")),
                "resp_format", format)
      [] method = "checkout" ->
            Put(Put(kwargs, "expired_date", None), "paytypes", None)
      [] OTHER -> kwargs

\* the first statements of Client.request, Client.reports and
\* Client.checkout up to the call of the transport: the assert of checkout,
\* then content = self.payload(action, **kwargs)
ClientPayload(method, action, kwargs, format, clock) ==
    IF method = "checkout" /\ action \notin CHECKOUT_ACTIONS
    THEN ERaise("AssertionError")
    ELSE client_encode(action, PayloadKwargs(method, kwargs, format), clock)

\* the result of a method of the client
NReturn(value) == [kind |-> "return", value |-> value, exc |-> NoException]

NRaise(e) == [kind |-> "raise", value |-> <<>>, exc |-> e]

\* response.raise_for_status() raised
HTTPStatusError == [kind |-> "HTTPStatusError", value |-> <<>>, exc |-> NoException]

NoNResult == [kind |-> "none", value |-> <<>>, exc |-> NoException]

\* the error that the JSON body error stands for: exception(code=
\* error.pop("err_code", None) or error.pop("code", None), description=...)
ErrorOf(error, description) ==
    LET code1 == Get(error, "err_code")
        rest1 == Without(error, {"err_code"})
        code  == IF Truthy(code1) THEN code1 ELSE Get(rest1, "code")
        rest2 == IF Truthy(code1) THEN rest1 ELSE Without(rest1, {"code"})
    IN  exception(code, description, Details(Without(rest2, {"err_description"})))

\* search(r'"data":(\[(.*)\])\}$', x): the leftmost place where "data":[
\* starts a match that runs to "]}" at the end of the text (or before the
\* newline that ends the text) without a newline in between; group is
\* group(1), the text from the "[" to the last "]"
SearchData(x) ==
    LET end    == IF x # "" /\ SubSeq(x, Len(x), Len(x)) = "\n" THEN Len(x) - 1 ELSE Len(x)
        starts == {i \in 1..(end - 9) :
                      /\ SubSeq(x, i, i + 7) = "\"data\":["
                      /\ \A j \in (i + 8)..(end - 2) : SubSeq(x, j, j) # "\n"}
        first  == CHOOSE i \in starts : \A j \in starts : i <= j
    IN  IF end >= 2 /\ SubSeq(x, end - 1, end) = "]}" /\ starts # {}
        THEN [found |-> TRUE, group |-> SubSeq(x, first + 7, end - 1)]
        ELSE [found |-> FALSE, group |-> ""]

\* BaseClient._handle_reports_response(response, format).  resp.json says
\* that the Content-Type starts with application/json, resp.text is the
\* text of the body and resp.body the dict of response.json()
_handle_reports_response(resp, format) ==
    IF resp.json
    THEN IF format \in {PyStr("json"), None} /\ SearchData(resp.text.s).found
         THEN NReturn(PyStr(SearchData(resp.text.s).group))
         ELSE NRaise(ErrorOf(resp.body,
                             IF "err_description" \in DOMAIN resp.body
                             THEN resp.body["err_description"] ELSE PyStr("")))
    ELSE NReturn(resp.text)

\* BaseClient._handle_checkout_response(response); resp.next is the URL of
\* the redirect, None when the response is no redirect
_handle_checkout_response(resp) ==
    IF resp.next = None
    THEN LET result == IF resp.json THEN resp.body ELSE EmptyDict
             rest   == Without(result, {"err_code", "err_description"})
         IN  NRaise(exception(Get(result, "err_code"), Get(result, "err_description"),
                              IF rest = EmptyDict THEN NoDetails ELSE Details(rest)))
    ELSE NReturn(resp.next)

-----------------------------------------------------------------------------
(* liqpy.convert: parse_isoduration *)

\* the character of the text x at the position i
Char(x, i) == SubSeq(x, i, i)

\* x.strip(): the white space of the texts here is the blank
StripBlanks(x) == Strip(x, {" "})

\* c.upper() for a character c
UpperChar(c) ==
    LET i == IndexOf("abcdefghijklmnopqrstuvwxyz", c)
    IN  IF i = 0 THEN c ELSE Char("ABCDEFGHIJKLMNOPQRSTUVWXYZ", i)

RECURSIVE Upper(_)
\* x.upper()
Upper(x) ==
    IF Len(x) = 0 THEN x ELSE UpperChar(Char(x, 1)) \o Upper(SubSeq(x, 2, Len(x)))

\* c in x for a character c
Contains(x, c) == IndexOf(x, c) # 0

\* x.split(c, 1) for a text x that contains c
Split1(x, c) ==
    <<SubSeq(x, 1, IndexOf(x, c) - 1), SubSeq(x, IndexOf(x, c) + 1, Len(x))>>

\* n, rest = rest.split(c, 1) if c in rest else ("", rest)
Designator(rest, c) == IF Contains(rest, c) THEN Split1(rest, c) ELSE <<"", rest>>

\* int(x) accepts the text x: digits with an optional sign, blanks around
\* them allowed
IsIntText(x) ==
    LET y == StripBlanks(x)
    IN  IF Len(y) > 0 /\ Char(y, 1) \in {"-", "+"}
        THEN IsDigit(SubSeq(y, 2, Len(y)))
        ELSE IsDigit(y)

\* int(x or 0) for a text x that is empty or accepted by int()
IntOr0(x) ==
    LET y == StripBlanks(x)
    IN  IF Len(y) = 0 THEN 0
        ELSE IF Char(y, 1) = "-" THEN 0 - StrToInt(SubSeq(y, 2, Len(y)))
        ELSE IF Char(y, 1) = "+" THEN StrToInt(SubSeq(y, 2, Len(y)))
        ELSE StrToInt(y)

\* the outcome of parse_isoduration: the timedelta it returns, or the
\* exception that leaves it
DReturn(delta) == [kind |-> "return", delta |-> delta, exc |-> ""]

DRaise(e) == [kind |-> "raise", delta |-> 0, exc |-> e]

NoDResult == [kind |-> "none", delta |-> 0, exc |-> ""]

\* mutant: a month of 31 days and a year of 366
DurationDays_Calendar(years, months, days) == days + years * 366 + months * 31

\* int(days or 0) + (int(years or 0) * 365) + (int(months or 0) * 30)
DurationDays(years, months, days) == days + years * 365 + months * 30

\* timedelta(days=..., hours=..., minutes=..., seconds=...), as the number
\* of seconds it spans (a timedelta is kept normalized, equal spans are
\* equal timedeltas)
timedelta(days, hours, minutes, seconds) ==
    days * 86400 + hours * 3600 + minutes * 60 + seconds

\* parse_isoduration(value); the asserts run as in the default interpreter
parse_isoduration(value0) ==
    LET value1 == Upper(StripBlanks(value0))
    IN  IF ~(StartsWith(value1, "P") \/ StartsWith(value1, "-P"))
        THEN DRaise("ValueError")
        ELSE
          LET sgn     == IF StartsWith(value1, "-") THEN 0 - 1 ELSE 1
              value   == LStrip(LStrip(value1, {"-"}), {"P"})
              parts   == IF Contains(value, "T") THEN Split1(value, "T")
                         ELSE <<value, "">>
              years   == Designator(parts[1], "Y")
              months  == Designator(years[2], "M")
              days    == Designator(months[2], "D")
              hours   == Designator(parts[2], "H")
              minutes == Designator(hours[2], "M")
              seconds == Designator(minutes[2], "S")
              texts   == <<days[1], years[1], months[1], hours[1], minutes[1],
                           seconds[1]>>
          IN  IF days[2] # "" THEN DRaise("AssertionError")
              ELSE IF seconds[2] # "" THEN DRaise("AssertionError")
              ELSE IF \E i \in 1..6 : texts[i] # "" /\ ~IsIntText(texts[i])
                   THEN DRaise("ValueError")
              ELSE DReturn(sgn * timedelta(DurationDays(IntOr0(years[1]),
                                                        IntOr0(months[1]),
                                                        IntOr0(days[1])),
                                           IntOr0(hours[1]), IntOr0(minutes[1]),
                                           IntOr0(seconds[1])))

-----------------------------------------------------------------------------
(* The inputs of the calls *)

\* the components of a duration text: the sign and the numbers of years,
\* months, days, hours, minutes, seconds, each a text of digits, empty for
\* a component that is left out
DurationParts(minus, years, months, days, hours, minutes, seconds) ==
    [sign |-> minus, years |-> years, months |-> months, days |-> days,
     hours |-> hours, minutes |-> minutes, seconds |-> seconds]

\* the number n followed by its designator c, nothing for an empty n
Component(n, c) == IF n = "" THEN "" ELSE n \o c

\* the text [-]P[n]Y[n]M[n]DT[n]H[n]M[n]S of the components; the T is
\* there when a time component is
DurationText(p) ==
    LET time == Component(p.hours, "H") \o Component(p.minutes, "M")
                \o Component(p.seconds, "S")
    IN  p.sign \o "P" \o Component(p.years, "Y") \o Component(p.months, "M")
        \o Component(p.days, "D") \o (IF time = "" THEN "" ELSE "T" \o time)

\* the well-formed durations: one component at least
WellFormedParts ==
    {p \in [sign : {"", "-"}, years : {"", "1"}, months : {"", "2"},
            days : {"", "1", "30"}, hours : {"", "5"}, minutes : {"", "7"},
            seconds : {"", "10"}] :
        <<p.years, p.months, p.days, p.hours, p.minutes, p.seconds>>
            # <<"", "", "", "", "", "">>}

\* texts that the grammar does not match
MalformedTexts ==
    {"", "P", "-P", "30D", "P1", "P1DX", "PXD", "PT", "P1DT", "P1.5D", "1D",
     "PT1", "P1S", "PT5H1", "-PP1D", "P-1D", "P1D2Y", "PT7M5H"}

\* texts of a duration in lower case or with blanks around
LooseTexts == {"p1d", " P1D ", "-p30d", "pt5h"}

NoParts == DurationParts("", "", "", "", "", "", "")

\* a call of parse_isoduration: the text, the components it was written
\* from (NoParts for a text that is not well-formed), the outcome
DCall(value, parts, result) == [value |-> value, parts |-> parts, result |-> result]

NoDur == DCall("", NoParts, NoDResult)

RespActions == {"status", "data", "pay"}

ResultValues == {Absent, PyStr("ok"), PyStr("error")}

StatusValues ==
    {Absent, PyStr("success"), PyStr("failure"), PyStr("error"), PyStr("hold")}

PaymentIdValues == {Absent, None, PyInt(42)}

ErrCodeValues ==
    {Absent, PyStr("9859"), PyStr("5"), PyStr("90"), PyStr("limit"),
     PyStr("something_new")}

CodeValues == {Absent, PyStr("101")}

ErrDescriptionValues == {Absent, PyStr("Decline")}

\* amounts arrive as JSON integers
AmountValues == {Absent, PyInt(1)}

\* a JSON response with the given fields
JsonResponse(result, status, payment_id, err_code, code, err_description, amount) ==
    [json |-> TRUE,
     body |-> MkDict([result |-> result, status |-> status,
                      payment_id |-> payment_id, err_code |-> err_code,
                      code |-> code, err_description |-> err_description,
                      amount |-> amount])]

\* a response whose Content-Type is not application/json
TextResponse == [json |-> FALSE, body |-> EmptyDict]

NoResponse == [action |-> "", resp |-> TextResponse]

ValidatorActions == {"pay", "subscribe", "reports", "letter_of_credit"}

VAmountValues == {Absent, Dec(1), Dec(0), PyInt(1)}

VCurrencyValues == {PyStr("USD"), PyStr("XXX")}

\* 1600 microseconds is 2 milliseconds after rounding
VDateValues == {Absent, PyInt(1), DateTime(1600, "UTC"), PyStr("bad"), TimeDelta(0)}

VPeriodicityValues == {Absent, PyStr("month"), PyStr("week")}

VDateStartValues == {Absent, None, DateTime(700, "UTC"), PyStr("bad")}

VTransIdValues == {Absent, PyStr("x")}

BuilderActions == {"pay", "subscribe", "letter_of_credit"}

OpidValues == {Absent, PyStr("o1"), PyInt(17), PyUUID("123e4567")}

OrderIdValues == {Absent, PyStr("a")}

BPeriodicityValues == {Absent, PyStr("month")}

BDateStartValues == {Absent, None, DateTime(700, "UTC")}

BSubscribeValues == {Absent, PyBool(FALSE)}

BPaymentIdValues == {Absent, PyStr("9")}

\* the arguments of a call of encode(), of a LiqpayEncoder or of
\* BaseClient.encode (the only one with an action argument)
ECall(fn, action, params, encoder, preprocessor, validator) ==
    [fn |-> fn, action |-> action, params |-> params, encoder |-> encoder,
     preprocessor |-> preprocessor, validator |-> validator]

NoECall == ECall("", "", <<>>, JSONEncoderDefault, FALSE, FALSE)

\* the arguments of a call of callback
CCall(fn, data, signature, verify) ==
    [fn |-> fn, data |-> data, signature |-> signature, verify |-> verify]

NoCCall == CCall("", b64encode(<<>>), NoSignature, FALSE)

ClientActions == {"pay", "subscribe"}

\* amount=1 as in the example of BaseClient.callback, and Decimal amounts
CAmountValues == {PyInt(1), Dec(1), DecFrac(0, "5")}

CVerifyCodeValues == {Absent, PyBool(FALSE)}

\* a callback body of the service, the same body with another amount, and a
\* body with a null member, a float amount and an older version
CallbackBodies ==
    {<<Item("action", JStr("pay")), Item("amount", JInt(1)),
       Item("currency", JStr("USD")), Item("order_id", JStr("o1")),
       Item("version", JInt(3))>>,
     <<Item("action", JStr("pay")), Item("amount", JInt(100)),
       Item("currency", JStr("USD")), Item("order_id", JStr("o1")),
       Item("version", JInt(3))>>,
     <<Item("action", JStr("pay")), Item("amount", JFloat(0, "5")),
       Item("err_code", JNull), Item("version", JInt(2))>>}

\* the signatures that may come with the body data: the right one, one
\* made with another key, and the right signature of another body
Signatures(data) ==
    {sign(data, PrivateKey), sign(data, "sandbox_other")}
    \cup {sign(b64encode(b), PrivateKey) : b \in CallbackBodies}

EncodeActions == {"pay", "subscribe"}

EAmountValues ==
    {Absent, Dec(1), DecFrac(0, "5"), DecFrac(1, "50"),
     DecFrac(1, "23456789012345671")}

\* the values of a flag field
FlagValues == {Absent, PyBool(FALSE), PyBool(TRUE)}

ETokenFlagValues == {Absent, None, PyBool(FALSE)}

ECreditFlagValues == {Absent, PyInt(0)}

EPeriodicityValues == {Absent, PyStr("month")}

Encoders == {JSONEncoderDefault, LiqpayEncoder}

\* the items of the dict literal with the given values, the absent ones left out
MkItems(pairs) == SelectSeq(pairs, LAMBDA it : it.v # Absent)

\* the items in the opposite insertion order
Reversed(items) == [i \in DOMAIN items |-> items[Len(items) + 1 - i]]

\* a call of a method of the client: its arguments, its position (pc), the
\* content it built, the error it raised while building it, the bodies
\* that the transport was asked to POST, and its result
NetCall(method, action, kwargs, format, pc, content, error, posts, result) ==
    [method |-> method, action |-> action, kwargs |-> kwargs, format |-> format,
     pc |-> pc, content |-> content, error |-> error, posts |-> posts,
     result |-> result]

NoNet == NetCall("", "", EmptyDict, None, "none", NoContent, "", <<>>, NoNResult)

Methods == {"request", "reports", "checkout"}

NetActions == {"pay", "subscribe", "refund"}

NAmountValues == {Dec(1), PyInt(1), Dec(0)}

NDateFromValues == {PyInt(1), PyStr("bad"), DateTime(1600, "UTC")}

NDateToValues == {PyInt(1), PyInt(2)}

FormatValues == {None, PyStr("json"), PyStr("csv"), PyStr("yaml")}

\* the keyword arguments of Client.reports
ReportsKwargs ==
    {MkDict([date_from |-> df, date_to |-> dt]) :
        df \in NDateFromValues, dt \in NDateToValues}

\* the keyword arguments of Client.request and Client.checkout for a payment
PaymentKwargs ==
    {MkDict([amount |-> am, currency |-> cu, order_id |-> PyStr("o1"),
             description |-> PyStr("d"), subscribe_periodicity |-> sp]) :
        am \in NAmountValues, cu \in VCurrencyValues, sp \in EPeriodicityValues}

\* the call after content = self.payload(...): about to send the content
\* c, or left by the error c
StartedCall(method, action, kwargs, format, c) ==
    IF c.kind = "return"
    THEN NetCall(method, action, kwargs, format, "send",
                 payload(c.data, c.signature), "", <<>>, NoNResult)
    ELSE NetCall(method, action, kwargs, format, "raised",
                 NoContent, c.kind, <<>>, NoNResult)

\* a response of the service: json says that the content type is JSON, body
\* is the dict of a JSON body, rows the text of the data array that ends a
\* JSON body (None for a body that does not end with one), text the text of
\* the body, next the URL of a redirect; ok is false for a status that
\* response.raise_for_status() raises on
HttpResponse(ok, json, body, rows, text, next) ==
    [ok |-> ok, json |-> json, body |-> body, rows |-> rows, text |-> text,
     next |-> next]

\* the responses to a POST of the request endpoint
RequestResponses ==
    {HttpResponse(TRUE, TRUE, MkDict([result |-> PyStr("ok"), status |-> PyStr("success")]),
                  None, PyStr(""), None),
     HttpResponse(TRUE, TRUE, MkDict([result |-> PyStr("error"), err_code |-> PyStr("limit")]),
                  None, PyStr(""), None),
     HttpResponse(TRUE, FALSE, EmptyDict, None, PyStr("<html>"), None),
     HttpResponse(FALSE, FALSE, EmptyDict, None, PyStr("<html>"), None)}

\* the responses to a POST of the request endpoint for action reports
ReportsResponses ==
    {HttpResponse(TRUE, TRUE, MkDict([result |-> PyStr("success")]), PyStr("[{\"id\":1}]"),
                  PyStr("{\"result\":\"success\",\"data\":[{\"id\":1}]}"), None),
     HttpResponse(TRUE, TRUE, MkDict([result |-> PyStr("error"), err_code |-> PyStr("limit")]),
                  None, PyStr("{\"result\":\"error\",\"err_code\":\"limit\"}"), None),
     HttpResponse(TRUE, FALSE, EmptyDict, None, PyStr("id,amount"), None),
     HttpResponse(FALSE, FALSE, EmptyDict, None, PyStr("<html>"), None)}

\* the responses to a POST of the checkout endpoint
CheckoutResponses ==
    {HttpResponse(TRUE, FALSE, EmptyDict, None, PyStr(""), PyStr("https://www.liqpay.ua/c")),
     HttpResponse(TRUE, TRUE, MkDict([result |-> PyStr("error"), err_code |-> PyStr("limit")]),
                  None, PyStr(""), None),
     HttpResponse(TRUE, FALSE, EmptyDict, None, PyStr("<html>"), None)}

\* the instants of the datetimes handed to to_milliseconds, in
\* microseconds since the epoch
ConvertInstants == {0, 400, 500, 600, 1500, 1600, 2500, 501500, 1001000}

\* the values handed to to_milliseconds
ConvertValues ==
    {DateTime(us, tz) : us \in ConvertInstants, tz \in {"UTC", "+02:00"}}
    \cup {PyInt(5), PyStr("1970-01-01T00:00:00.002+00:00"), PyStr("soon")}

\* a call of to_milliseconds of the module fn: the value, the outcome, and
\* what datetime_from_millis made of the result (None before it is called)
ConvCall(fn, value, result, back) ==
    [fn |-> fn, value |-> value, result |-> result, back |-> back]

NoConv == ConvCall("", None, Failed(""), None)

\* a JSON response whose body is {prefix "data": rows} followed by tail
DataResponse(prefix, rows, tail) ==
    HttpResponse(TRUE, TRUE, MkDict([result |-> PyStr("success")]), PyStr(rows),
                 PyStr("{" \o prefix \o "\"data\":" \o rows \o "}" \o tail), None)

\* a JSON response whose body does not end with a data array
OtherJson(body, text) == HttpResponse(TRUE, TRUE, body, None, PyStr(text), None)

\* a response with another content type
PlainResponse(text) == HttpResponse(TRUE, FALSE, EmptyDict, None, PyStr(text), None)

\* the responses handed to _handle_reports_response
ReportBodies ==
    {DataResponse("\"result\":\"success\",", "[{\"id\":1},{\"id\":2}]", ""),
     DataResponse("\"result\":\"success\",", "[{\"id\":1},{\"id\":2}]", "\n"),
     DataResponse("", "[]", ""),
     DataResponse("\"result\":\"success\",", "[{\"data\":[1]}]", ""),
     DataResponse("\"meta\":{\"data\":[0]},", "[{\"id\":1}]", ""),
     DataResponse("\"result\":\"success\",", "[\n{\"id\":1}\n]", ""),
     OtherJson(MkDict([result |-> PyStr("error"), err_code |-> PyStr("limit")]),
               "{\"result\":\"error\",\"err_code\":\"limit\"}"),
     OtherJson(MkDict([result |-> PyStr("error")]), "{\"result\":\"error\"}"),
     OtherJson(MkDict([result |-> PyStr("success")]),
               "{\"data\":[{\"id\":1}],\"result\":\"success\"}"),
     PlainResponse("id,amount,currency\n1,100,USD\n2,200,EUR\n"),
     PlainResponse("<data><item><id>1</id><amount>100</amount></item></data>"),
     PlainResponse("{\"data\":[1]}"),
     PlainResponse("")}

ReportFormats == {None, PyStr("json"), PyStr("csv"), PyStr("xml")}

ReportCall(resp, format, result) == [resp |-> resp, format |-> format, result |-> result]

NoReport == ReportCall(PlainResponse(""), None, NoNResult)

-----------------------------------------------------------------------------
(* liqpy.__main__: App._run_reports *)

\* the last instant that a datetime can hold (datetime.max), on the scale
\* of the instants of ReportDates
MaxInstant == 6

\* the values of date_from and date_to
ReportDates == 0..3

\* the values of --timespan; the last two do not fit between date_to and
\* MaxInstant
Timespans == {-1, 0, 1, 2, 3, MaxInstant - 1, MaxInstant}

\* the lists that client.payments returns for a chunk: payment ids
PaymentResults == {<<>>, <<1>>, <<1, 2>>}

\* the texts that client.reports returns for a chunk, as their lines
CsvResults == {<<>>, <<"id\n">>, <<"id\n", "1\n">>}

\* self.reporter.encode(item) for the payment with the id item
EncodeItem(item) == "{\"payment_id\":" \o IntToStr(item) \o "}"

CliRun(pc, date_from, date_to, step, format, skip_header, chunk_date_from,
       chunks, results, out) ==
    [pc |-> pc, date_from |-> date_from, date_to |-> date_to, step |-> step,
     format |-> format, skip_header |-> skip_header,
     chunk_date_from |-> chunk_date_from, chunks |-> chunks,
     results |-> results, out |-> out]

NoCli == CliRun("none", 0, 0, 0, "", FALSE, 0, <<>>, <<>>, <<>>)

RECURSIVE JsonItems(_)
\* the pieces of the for loop and of the last item: every item but the
\* last is followed by a comma
JsonItems(result) ==
    IF result = <<>> THEN <<>>
    ELSE IF Len(result) = 1 THEN <<EncodeItem(result[1])>>
    ELSE <<EncodeItem(result[1]), ",">> \o JsonItems(Tail(result))

\* the pieces that the json branch yields for the result of a chunk
JsonChunk(result, is_first_chunk, is_last_chunk) ==
    (IF is_first_chunk THEN <<"[">> ELSE IF result # <<>> THEN <<",">> ELSE <<>>)
    \o JsonItems(result)
    \o (IF is_last_chunk THEN <<"]">> ELSE <<>>)

RECURSIVE NdjsonChunk(_)
\* the pieces that the ndjson branch yields for the result of a chunk
NdjsonChunk(result) ==
    IF result = <<>> THEN <<>>
    ELSE <<EncodeItem(result[1]), "\n">> \o NdjsonChunk(Tail(result))

\* the pieces that the csv branch yields: the whole text for the first
\* chunk unless the header is skipped, else the lines after the first
CsvChunk(result, is_first_chunk, skip_header) ==
    IF is_first_chunk /\ ~skip_header THEN result ELSE Tail(result)

\* the smaller of two instants
Min(a, b) == IF a <= b THEN a ELSE b

-----------------------------------------------------------------------------
(* liqpy.client: BaseClient.update_keys *)

\* is_sandbox(key)
is_sandbox(key) == StartsWith(key.s, "sandbox_")

\* the keys handed to update_keys; None stands for an argument left out
PublicKeys == {None, PyStr("sandbox_i0000000"), PyStr("i0000000"), PyStr("sandbox")}

PrivateKeys == {None, PyStr("sandbox_AAAAAA"), PyStr("AAAAAA")}

\* the values of os.environ: a dict with LIQPAY_PUBLIC_KEY and
\* LIQPAY_PRIVATE_KEY, or without them
Environments ==
    {EmptyDict,
     [LIQPAY_PUBLIC_KEY |-> PyStr("sandbox_i1111111"),
      LIQPAY_PRIVATE_KEY |-> PyStr("sandbox_BBBBBB")],
     [LIQPAY_PUBLIC_KEY |-> PyStr("i1111111"), LIQPAY_PRIVATE_KEY |-> PyStr("BBBBBB")]}

\* a client: the stored pair (None before the first assignment), the
\* environment, and the last call of update_keys with its arguments, the
\* pair stored before it and the exception it raised ("" for none)
KeyState(public, private, environ, calls, arg_public, arg_private, before, raised) ==
    [public |-> public, private |-> private, environ |-> environ, calls |-> calls,
     arg_public |-> arg_public, arg_private |-> arg_private, before |-> before,
     raised |-> raised]

NoKeys == KeyState(None, None, EmptyDict, 0, None, None, <<None, None>>, "")

\* mutant: the keys are stored before they are compared
update_keys_StoreFirst(k, public_key, private_key) ==
    LET public  == IF public_key = None THEN Get(k.environ, "LIQPAY_PUBLIC_KEY")
                   ELSE public_key
        private == IF private_key = None THEN Get(k.environ, "LIQPAY_PRIVATE_KEY")
                   ELSE private_key
        called  == [k EXCEPT !.calls = IF @ < 2 THEN @ + 1 ELSE @,
                             !.arg_public = public_key, !.arg_private = private_key,
                             !.before = <<k.public, k.private>>]
    IN  IF public = None \/ private = None THEN [called EXCEPT !.raised = "KeyError"]
        ELSE IF is_sandbox(public) # is_sandbox(private)
        THEN [called EXCEPT !.public = public, !.private = private,
                            !.raised = "ValueError"]
        ELSE [called EXCEPT !.public = public, !.private = private, !.raised = ""]

\* BaseClient.update_keys(public_key=..., private_key=...) on the client k;
\* calls counts the calls up to two
update_keys(k, public_key, private_key) ==
    LET public  == IF public_key = None THEN Get(k.environ, "LIQPAY_PUBLIC_KEY")
                   ELSE public_key
        private == IF private_key = None THEN Get(k.environ, "LIQPAY_PRIVATE_KEY")
                   ELSE private_key
        called  == [k EXCEPT !.calls = IF @ < 2 THEN @ + 1 ELSE @,
                             !.arg_public = public_key, !.arg_private = private_key,
                             !.before = <<k.public, k.private>>]
    IN  IF public = None \/ private = None THEN [called EXCEPT !.raised = "KeyError"]
        ELSE IF is_sandbox(public) # is_sandbox(private)
        THEN [called EXCEPT !.raised = "ValueError"]
        ELSE [called EXCEPT !.public = public, !.private = private, !.raised = ""]

\* the codes handed to get_exception_cls
ClassifiedCodes ==
    {None, PyStr("unknown"), PyStr("limit"), PyStr("90"), PyStr("expired_3ds"),
     PyStr("err_access"), PyStr("shop_blocked"), PyStr("payment_not_found"),
     PyStr("payment_processing"), PyStr("invalid_signature"),
     PyStr("public_key_not_found"), PyStr("order_id_empty"), PyStr("amount_limit"),
     PyStr("wrong_amount_currency"), PyStr("wait_info")}

Classified(code, cls) == [code |-> code, cls |-> cls]

NoClassified == Classified(None, "")

-----------------------------------------------------------------------------
(* The state machine *)

Init ==
    /\ now = 0
    /\ op = "idle"
    /\ response = NoResponse
    /\ outcome = NoOutcome
    /\ vrequest = EmptyDict
    /\ vresult = NoVResult
    /\ rparams = [action |-> "", params |-> EmptyDict]
    /\ rresult = NoRResult
    /\ ecall = NoECall
    /\ eresult = NoEResult
    /\ ccall = NoCCall
    /\ cresult = NoCResult
    /\ net = NoNet
    /\ dur = NoDur
    /\ msec = NoConv
    /\ report = NoReport
    /\ cli = NoCli
    /\ vcaller = EmptyDict
    /\ pair = NoKeys
    /\ classified = NoClassified

\* no call of the encoding pipeline is in progress after the step
NoPipeline ==
    /\ classified' = NoClassified
    /\ pair' = NoKeys
    /\ cli' = NoCli
    /\ report' = NoReport
    /\ msec' = NoConv
    /\ dur' = NoDur
    /\ ecall' = NoECall
    /\ eresult' = NoEResult
    /\ ccall' = NoCCall
    /\ cresult' = NoCResult
    /\ net' = NoNet

\* time passes
Tick ==
    /\ op = "idle"
    /\ now + 500 <= MaxTicks * 500
    /\ now' = now + 500
    /\ UNCHANGED <<op, response, outcome, vrequest, vresult, rparams, rresult,
                   ecall, eresult, ccall, cresult, net, dur, msec, report, cli, vcaller, pair, classified>>

\* BaseClient._handle_response(response, action)
HandleResponse ==
    /\ op = "idle"
    /\ \E action \in RespActions, json \in BOOLEAN,
       r \in ResultValues, s \in StatusValues, p \in PaymentIdValues,
       e \in ErrCodeValues, c \in CodeValues,
       d \in ErrDescriptionValues, a \in AmountValues :
      LET resp == IF json THEN JsonResponse(r, s, p, e, c, d, a) ELSE TextResponse
      IN
        /\ op' = "handle_response"
        /\ response' = [action |-> action, resp |-> resp]
        /\ outcome' = _handle_response(resp, action)
        /\ vrequest' = EmptyDict
        /\ vcaller' = EmptyDict
        /\ vresult' = NoVResult
        /\ rparams' = [action |-> "", params |-> EmptyDict]
        /\ rresult' = NoRResult
        /\ NoPipeline
        /\ UNCHANGED now

\* LiqpayValidator()(request)
Validate ==
    /\ op = "idle"
    /\ \E a \in ValidatorActions, am \in VAmountValues, cu \in VCurrencyValues,
       df \in VDateValues, dt \in VDateValues, sp \in VPeriodicityValues,
       ds \in VDateStartValues, ti \in VTransIdValues :
      LET req == MkDict([action |-> PyStr(a), amount |-> am, currency |-> cu,
                         date_from |-> df, date_to |-> dt,
                         subscribe_periodicity |-> sp,
                         subscribe_date_start |-> ds, ds_trans_id |-> ti])
      IN  /\ op' = "validate"
          /\ vrequest' = req
          /\ vcaller' = CallerAfter(req, now)
          /\ vresult' = LiqpayValidator(req, now)
          /\ response' = NoResponse
          /\ outcome' = NoOutcome
          /\ rparams' = [action |-> "", params |-> EmptyDict]
          /\ rresult' = NoRResult
          /\ NoPipeline
          /\ UNCHANGED now

\* liqpy.api.request(action, public_key, version=VERSION, **params)
Request ==
    /\ op = "idle"
    /\ \E a \in BuilderActions, oi \in OpidValues, oid \in OrderIdValues,
       pid \in BPaymentIdValues,
       sp \in BPeriodicityValues, ds \in BDateStartValues, su \in BSubscribeValues :
      LET params == MkDict([opid |-> oi, order_id |-> oid, payment_id |-> pid,
                            subscribe_periodicity |-> sp,
                            subscribe_date_start |-> ds, subscribe |-> su])
      IN  /\ op' = "request"
          /\ rparams' = [action |-> a, params |-> params]
          /\ rresult' = request(a, "sandbox_i0000000", VERSION, params, now)
          /\ response' = NoResponse
          /\ outcome' = NoOutcome
          /\ vrequest' = EmptyDict
          /\ vcaller' = EmptyDict
          /\ vresult' = NoVResult
          /\ NoPipeline
          /\ UNCHANGED now

RECURSIVE Repeat(_, _)
\* the text x repeated k times
Repeat(x, k) ==
    IF k = 0 THEN ""
    ELSE IF k % 2 = 0 THEN LET half == Repeat(x, k \div 2) IN half \o half
    ELSE x \o Repeat(x, k - 1)

\* an https URL of 511 characters
LongUrl == "https://h.ua/" \o Repeat("a", 498)

RuleAmounts == {Dec(1), Dec(0), PyInt(1)}

RulePayers == {"sender", "receiver", "both"}

RuleUrls == {"https://h.ua/cb", "http://h.ua", "ftp://h.ua/x", "https:///x",
             "h.ua/cb", LongUrl}

Rule(amount, payer, url) ==
    PyDict([public_key |-> PyStr("pk"), amount |-> amount,
            commission_payer |-> PyStr(payer), server_url |-> PyStr(url)])

GoodRule == Rule(Dec(1), "sender", "https://h.ua/cb")

Rules == {Rule(a, p, u) : a \in RuleAmounts, p \in RulePayers, u \in RuleUrls}

\* the values of split_rules: lists of one or two rules, the empty list, a
\* rule without server_url, an item and a value of another type
SplitRulesValues ==
    {PyList(<<r>>) : r \in Rules}
    \cup {PyList(<<GoodRule, r>>) : r \in Rules}
    \cup {PyList(<<Rule(Dec(0), "sender", "https://h.ua/cb"),
                   Rule(Dec(1), "both", "https://h.ua/cb")>>),
          PyList(<<>>),
          PyList(<<PyDict([public_key |-> PyStr("pk"), amount |-> Dec(1),
                           commission_payer |-> PyStr("sender")])>>),
          PyList(<<PyInt(5)>>),
          PyInt(5)}

\* LiqpayValidator()(request) for a pay request with split_rules
ValidateRules ==
    /\ op = "idle"
    /\ \E rules \in SplitRulesValues :
      LET req == [action |-> PyStr("pay"), amount |-> Dec(1), split_rules |-> rules]
      IN  /\ op' = "validate"
          /\ vrequest' = req
          /\ vcaller' = CallerAfter(req, now)
          /\ vresult' = LiqpayValidator(req, now)
          /\ response' = NoResponse
          /\ outcome' = NoOutcome
          /\ rparams' = [action |-> "", params |-> EmptyDict]
          /\ rresult' = NoRResult
          /\ NoPipeline
          /\ UNCHANGED now

\* base_client._handle_reports_response(response, format)
HandleReportsResponse ==
    /\ op = "idle"
    /\ \E resp \in ReportBodies, format \in ReportFormats :
          report' = ReportCall(resp, format, _handle_reports_response(resp, format))
    /\ op' = "report"
    /\ UNCHANGED <<now, response, outcome, vrequest, vresult, rparams, rresult,
                   ecall, eresult, ccall, cresult, net, dur, msec, cli, vcaller, pair, classified>>

\* the texts of a string field of the addenda: within max_len, one more
FieldTexts(max) == {Repeat("A", max), Repeat("A", max + 1)}

\* the mappings with the seven wire keys
WireMappings ==
    {PyDict([airLine |-> PyStr(a), ticketNumber |-> PyStr(t), passengerName |-> PyStr(p),
             flightNumber |-> PyStr(f), originCity |-> PyStr(o),
             destinationCity |-> PyStr(d), departureDate |-> PyStr("100514")])
       : a \in FieldTexts(4), t \in FieldTexts(15), p \in FieldTexts(29),
         f \in FieldTexts(5), o \in FieldTexts(5), d \in FieldTexts(5)}

\* the mapping of test_encode_dae
TestDae ==
    PyDict([airLine |-> PyStr("Avia"), ticketNumber |-> PyStr("ACSFD12354SA"),
            passengerName |-> PyStr("John Doe"), flightNumber |-> PyStr("742"),
            originCity |-> PyStr("DP"), destinationCity |-> PyStr("NY"),
            departureDate |-> PyStr("100514")])

\* the values of dae: mappings with the wire keys, the instances made of
\* them by DetailAddenda.from_dict, a mapping that wraps one under the key
\* data, and a value of another type
DaeValues ==
    WireMappings \cup {TestDae}
    \cup {DetailAddenda_from_dict(m).value : m \in WireMappings \cup {TestDae}}
    \cup {PyDict([data |-> TestDae]), PyInt(5)}

\* LiqpayValidator()(request) for a pay request with dae
ValidateDae ==
    /\ op = "idle"
    /\ \E value \in DaeValues :
      LET req == [action |-> PyStr("pay"), amount |-> Dec(1), dae |-> value]
      IN  /\ op' = "validate"
          /\ vrequest' = req
          /\ vcaller' = CallerAfter(req, now)
          /\ vresult' = LiqpayValidator(req, now)
          /\ response' = NoResponse
          /\ outcome' = NoOutcome
          /\ rparams' = [action |-> "", params |-> EmptyDict]
          /\ rresult' = NoRResult
          /\ NoPipeline
          /\ UNCHANGED now

\* App._run_reports up to the loop: the two checks of the arguments
RunReports ==
    /\ op = "idle"
    /\ \E date_from \in ReportDates, date_to \in ReportDates, step \in Timespans,
          format \in {"csv", "json", "ndjson"}, skip_header \in BOOLEAN :
          /\ format # "csv" => ~skip_header
          /\ cli' = CliRun(IF step <= 0 \/ date_from >= date_to THEN "usage" ELSE "loop",
                           date_from, date_to, step, format, skip_header, date_from,
                           <<>>, <<>>, <<>>)
    /\ op' = "reports"
    /\ UNCHANGED <<now, response, outcome, vrequest, vresult, rparams, rresult,
                   ecall, eresult, ccall, cresult, net, dur, msec, report, vcaller, pair, classified>>

\* one evaluation of the loop condition and, when it holds, one pass of the
\* loop body with the result that the client returns for the chunk
ReportsChunk ==
    /\ op = "reports"
    /\ cli.pc = "loop"
    /\ LET chunk_date_from == cli.chunk_date_from
           chunk_date_to   == Min(cli.date_to, chunk_date_from + cli.step)
           is_first_chunk  == chunk_date_from = cli.date_from
           is_last_chunk   == chunk_date_to = cli.date_to
       IN  IF chunk_date_from + cli.step > MaxInstant
           THEN cli' = [cli EXCEPT !.pc = "OverflowError"]
           ELSE IF chunk_date_to = chunk_date_from
           THEN cli' = [cli EXCEPT !.pc = "done"]
           ELSE \E result \in (IF cli.format = "csv" THEN CsvResults ELSE PaymentResults) :
                  LET requested == [cli EXCEPT
                                      !.chunks = Append(@, <<chunk_date_from, chunk_date_to>>),
                                      !.results = Append(@, result)]
                  IN  IF cli.format = "csv" /\ result = <<>>
                         /\ ~(is_first_chunk /\ ~cli.skip_header)
                      THEN cli' = [requested EXCEPT !.pc = "RuntimeError"]
                      ELSE cli' = [requested EXCEPT
                                     !.chunk_date_from = chunk_date_to,
                                     !.out = @ \o (CASE cli.format = "csv" ->
                                                          CsvChunk(result, is_first_chunk,
                                                                   cli.skip_header)
                                                     [] cli.format = "json" ->
                                                          JsonChunk(result, is_first_chunk,
                                                                    is_last_chunk)
                                                     [] OTHER -> NdjsonChunk(result))]
    /\ UNCHANGED <<now, op, response, outcome, vrequest, vresult, rparams, rresult,
                   ecall, eresult, ccall, cresult, net, dur, msec, report, vcaller, pair, classified>>

\* BaseClient.__init__(public_key, private_key): the constructor calls
\* update_keys; a client whose constructor raised does not exist
NewClient ==
    /\ op = "idle"
    /\ \E environ \in Environments, public_key \in PublicKeys, private_key \in PrivateKeys :
          pair' = update_keys([NoKeys EXCEPT !.environ = environ], public_key, private_key)
    /\ op' = "keys"
    /\ UNCHANGED <<now, response, outcome, vrequest, vresult, rparams, rresult,
                   ecall, eresult, ccall, cresult, net, dur, msec, report, cli, vcaller, classified>>

\* client.update_keys(public_key=..., private_key=...) on a client that exists
UpdateKeys ==
    /\ op = "keys"
    /\ pair.public # None
    /\ \E public_key \in PublicKeys, private_key \in PrivateKeys :
          pair' = update_keys(pair, public_key, private_key)
    /\ UNCHANGED <<now, op, response, outcome, vrequest, vresult, rparams, rresult,
                   ecall, eresult, ccall, cresult, net, dur, msec, report, cli, vcaller, classified>>

\* get_exception_cls(code)
GetExceptionCls ==
    /\ op = "idle"
    /\ \E code \in ClassifiedCodes :
          classified' = Classified(code, get_exception_cls(code))
    /\ op' = "classify"
    /\ UNCHANGED <<now, response, outcome, vrequest, vresult, rparams, rresult,
                   ecall, eresult, ccall, cresult, net, dur, msec, report, cli, vcaller,
                   pair>>

\* no call of the classifier, of the validator or of the builder is in
\* progress after the step
NoCall ==
    /\ classified' = NoClassified
    /\ pair' = NoKeys
    /\ cli' = NoCli
    /\ report' = NoReport
    /\ msec' = NoConv
    /\ dur' = NoDur
    /\ response' = NoResponse
    /\ outcome' = NoOutcome
    /\ vrequest' = EmptyDict
    /\ vcaller' = EmptyDict
    /\ vresult' = NoVResult
    /\ rparams' = [action |-> "", params |-> EmptyDict]
    /\ rresult' = NoRResult

\* encode(params, preprocessor=..., validator=..., encoder=...) of liqpy.api,
\* or LiqpayEncoder(validator)(params)
Encode ==
    /\ op = "idle"
    /\ \E a \in EncodeActions, am \in EAmountValues, su \in FlagValues,
       vc \in FlagValues, rt \in ETokenFlagValues, lc \in ECreditFlagValues,
       sp \in EPeriodicityValues, rev \in BOOLEAN,
       fn \in {"encode", "LiqpayEncoder"}, enc \in Encoders,
       pre \in BOOLEAN, val \in BOOLEAN :
      LET lit    == MkItems(<<Item("action", PyStr(a)), Item("version", PyInt(VERSION)),
                              Item("amount", am), Item("subscribe", su),
                              Item("verifycode", vc), Item("recurringbytoken", rt),
                              Item("letter_of_credit", lc),
                              Item("subscribe_periodicity", sp)>>)
          params == IF rev THEN Reversed(lit) ELSE lit
      IN  /\ fn = "LiqpayEncoder" => (enc = LiqpayEncoder /\ ~pre /\ val)
          /\ op' = "encode"
          /\ ecall' = ECall(fn, "", params, enc, pre, val)
          /\ eresult' = IF fn = "encode" THEN encode(params, enc, pre, val, now)
                        ELSE LiqpayEncoderCall(params, enc, now)
          /\ ccall' = NoCCall
          /\ cresult' = NoCResult
          /\ net' = NoNet
          /\ NoCall
          /\ UNCHANGED now

\* BaseClient.encode(action, **kwargs)
ClientEncode ==
    /\ op = "idle"
    /\ \E a \in ClientActions, am \in CAmountValues, vc \in CVerifyCodeValues,
       sp \in EPeriodicityValues :
      LET kwargs == MkItems(<<Item("amount", am), Item("order_id", PyStr("o1")),
                              Item("description", PyStr("d")),
                              Item("currency", PyStr("USD")),
                              Item("verifycode", vc),
                              Item("subscribe_periodicity", sp)>>)
      IN  /\ op' = "encode"
          /\ ecall' = ECall("BaseClient.encode", a, kwargs, LiqpayEncoder, TRUE, TRUE)
          /\ eresult' = client_encode(a, ToDict(kwargs), now)
          /\ ccall' = NoCCall
          /\ cresult' = NoCResult
          /\ net' = NoNet
          /\ NoCall
          /\ UNCHANGED now

\* BaseClient.callback(data, signature, verify=...) or
\* LiqpayDecoder.callback(data, signature, private_key), for a body that
\* arrives from the network
Callback ==
    /\ op = "idle"
    /\ \E body \in CallbackBodies, fn \in {"BaseClient.callback", "LiqpayDecoder.callback"},
       verify \in BOOLEAN :
       \E signature \in Signatures(b64encode(body)) :
          /\ fn = "LiqpayDecoder.callback" => verify
          /\ op' = "callback"
          /\ ccall' = CCall(fn, b64encode(body), signature, verify)
          /\ cresult' = IF fn = "BaseClient.callback"
                        THEN callback(b64encode(body), signature, verify)
                        ELSE DecoderCallback(b64encode(body), signature, PrivateKey)
          /\ ecall' = NoECall
          /\ eresult' = NoEResult
          /\ net' = NoNet
          /\ NoCall
          /\ UNCHANGED now

\* the caller of BaseClient.encode hands the pair it got to
\* BaseClient.callback, verification on
CallbackEncoded ==
    /\ op = "encode"
    /\ ecall.fn = "BaseClient.encode"
    /\ eresult.kind = "return"
    /\ op' = "callback"
    /\ ccall' = CCall("BaseClient.callback", eresult.data, eresult.signature, TRUE)
    /\ cresult' = callback(eresult.data, eresult.signature, TRUE)
    /\ UNCHANGED <<now, response, outcome, vrequest, vresult, rparams, rresult,
                   ecall, eresult, net, dur, msec, report, cli, vcaller, pair, classified>>

\* Client.request(action, **kwargs), Client.reports(date_from, date_to,
\* format=...) or Client.checkout(action, ...) is called and runs up to the
\* call of the transport, or raises
ClientCall ==
    /\ op = "idle"
    /\ \E method \in Methods, action \in NetActions \cup {"reports"},
          kwargs \in ReportsKwargs \cup PaymentKwargs, format \in FormatValues :
          /\ method = "reports" <=> action = "reports"
          /\ method = "reports" <=> kwargs \in ReportsKwargs
          /\ method # "reports" => format = None
          /\ net' = StartedCall(method, action, kwargs, format,
                                ClientPayload(method, action, kwargs, format, now))
    /\ op' = "client"
    /\ ecall' = NoECall
    /\ eresult' = NoEResult
    /\ ccall' = NoCCall
    /\ cresult' = NoCResult
    /\ NoCall
    /\ UNCHANGED now

\* self._client.request("POST", endpoint, content=content): the transport
\* sends the content
TransportPost ==
    /\ op = "client"
    /\ net.pc = "send"
    /\ net' = [net EXCEPT !.pc = "wait", !.posts = Append(@, net.content)]
    /\ UNCHANGED <<now, op, response, outcome, vrequest, vresult, rparams, rresult,
                   ecall, eresult, ccall, cresult, dur, msec, report, cli, vcaller, pair, classified>>

\* the response arrives and the method hands it to its handler
ClientResponse ==
    /\ op = "client"
    /\ net.pc = "wait"
    /\ \E resp \in (CASE net.method = "request" -> RequestResponses
                      [] net.method = "reports" -> ReportsResponses
                      [] OTHER -> CheckoutResponses) :
      LET handled == _handle_response(resp, net.action)
          result  == CASE net.method = "request" ->
                            IF handled.kind = "return" THEN NReturn(handled.data)
                            ELSE NRaise(handled.exc)
                       [] net.method = "reports" ->
                            _handle_reports_response(resp, net.format)
                       [] OTHER -> _handle_checkout_response(resp)
      IN  net' = [net EXCEPT !.pc = "done",
                             !.result = IF net.method # "checkout" /\ ~resp.ok
                                        THEN HTTPStatusError ELSE result]
    /\ UNCHANGED <<now, op, response, outcome, vrequest, vresult, rparams, rresult,
                   ecall, eresult, ccall, cresult, dur, msec, report, cli, vcaller, pair, classified>>

\* parse_isoduration(value)
ParseDuration ==
    /\ op = "idle"
    /\ \/ \E p \in WellFormedParts :
            dur' = DCall(DurationText(p), p, parse_isoduration(DurationText(p)))
       \/ \E value \in MalformedTexts \cup LooseTexts :
            dur' = DCall(value, NoParts, parse_isoduration(value))
    /\ op' = "parse"
    /\ UNCHANGED <<now, response, outcome, vrequest, vresult, rparams, rresult,
                   ecall, eresult, ccall, cresult, net, msec, report, cli, vcaller, pair, classified>>

\* to_milliseconds(value) of liqpy.convert or of liqpy.util.convert
ToMilliseconds ==
    /\ op = "idle"
    /\ \E fn \in {"liqpy.convert", "liqpy.util.convert"}, value \in ConvertValues :
          msec' = ConvCall(fn, value,
                           IF fn = "liqpy.convert" THEN to_milliseconds(value, now)
                           ELSE util_to_milliseconds(value, now),
                           None)
    /\ op' = "convert"
    /\ UNCHANGED <<now, response, outcome, vrequest, vresult, rparams, rresult,
                   ecall, eresult, ccall, cresult, net, dur, report, cli, vcaller, pair, classified>>

\* datetime_from_millis(millis) on the result of liqpy.convert.to_milliseconds
DatetimeFromMillis ==
    /\ op = "convert"
    /\ msec.fn = "liqpy.convert"
    /\ msec.result.ok
    /\ msec.back = None
    /\ msec' = [msec EXCEPT !.back = datetime_from_millis(msec.result.value.n)]
    /\ UNCHANGED <<now, op, response, outcome, vrequest, vresult, rparams, rresult,
                   ecall, eresult, ccall, cresult, net, dur, report, cli, vcaller, pair, classified>>

\* the caller takes the outcome of the call; nothing of it is kept
Return ==
    /\ op # "idle"
    /\ op = "client" => net.pc \in {"done", "raised"}
    /\ op = "reports" => cli.pc # "loop"
    /\ op' = "idle"
    /\ response' = NoResponse
    /\ outcome' = NoOutcome
    /\ vrequest' = EmptyDict
    /\ vcaller' = EmptyDict
    /\ vresult' = NoVResult
    /\ rparams' = [action |-> "", params |-> EmptyDict]
    /\ rresult' = NoRResult
    /\ NoPipeline
    /\ UNCHANGED now

Next ==
    \/ Tick \/ HandleResponse \/ Validate \/ Request \/ Encode
    \/ ClientEncode \/ Callback \/ CallbackEncoded
    \/ ClientCall \/ TransportPost \/ ClientResponse
    \/ ParseDuration \/ ValidateRules \/ ValidateDae \/ RunReports \/ ReportsChunk \/ NewClient \/ UpdateKeys \/ GetExceptionCls \/ HandleReportsResponse \/ ToMilliseconds \/ DatetimeFromMillis \/ Return

Spec == Init /\ [][Next]_vars

-----------------------------------------------------------------------------
(* Properties of the response classifier *)

\* the JSON body of the response of the current call
Body == response.resp.body

\* a field of the body, None when the body has no such field
RespField(k) == Get(Body, k)

\* a JSON response was handled
Handled == op = "handle_response" /\ response.resp.json

\* two values carry the same text and number (a converter may change the type)
SameValue(a, b) == a.s = b.s /\ a.n = b.n

\* the key the error code is read from
CodeKey == IF "err_code" \in DOMAIN Body THEN "err_code" ELSE "code"

\* the fields of the body that have a value
Fields == {k \in DOMAIN Body : Body[k] # None}

\* d holds exactly the fields keys of the body, each with its value
HoldsFields(d, keys) ==
    /\ DOMAIN d = keys
    /\ \A k \in keys : SameValue(d[k], Body[k])

\* the call returned the body without result and without the error code key
ReturnsFields ==
    /\ outcome.kind = "return"
    /\ HoldsFields(outcome.data, Fields \ {"result", CodeKey})

\* C1: for action status or data, a JSON response with a non-null
\* payment_id is returned with its fields and never raised, whatever
\* result and status are.
C1_PaymentIdIsSuccess ==
    (Handled /\ response.action \in {"status", "data"}
             /\ RespField("payment_id") # None)
    => (ReturnsFields /\ "payment_id" \in DOMAIN outcome.data)

\* C1 witness: action data, result and status both say error, payment_id 42
C1_Witness ==
    /\ Handled /\ response.action = "data"
    /\ RespField("result") = PyStr("error")
    /\ RespField("status") = PyStr("error")
    /\ RespField("payment_id") = PyInt(42)
    /\ outcome.kind = "return"
    /\ outcome.data["payment_id"] = PyInt(42)

\* C2: for any action, a JSON response with result "ok" and a status other
\* than "error" is returned: the returned map is the body without the result
\* key and the error code key, every other field kept with its value.
C2_OkIsSuccess ==
    (Handled /\ RespField("result") = PyStr("ok")
             /\ RespField("status") # PyStr("error"))
    => ReturnsFields

\* C2 witness: {result: ok, status: success, payment_id: 42, amount: 1} for
\* action pay comes back without result, with payment_id 42 and the amount
C2_Witness ==
    /\ Handled /\ response.action = "pay"
    /\ RespField("result") = PyStr("ok")
    /\ RespField("status") = PyStr("success")
    /\ RespField("payment_id") = PyInt(42)
    /\ RespField("amount") = PyInt(1)
    /\ outcome.kind = "return"
    /\ "result" \notin DOMAIN outcome.data
    /\ outcome.data["payment_id"] = PyInt(42)
    /\ outcome.data["amount"] = Dec(1)

\* the response says error: status is error or failure, or result is error
SaysError ==
    \/ RespField("status") \in {PyStr("error"), PyStr("failure")}
    \/ RespField("result") = PyStr("error")

\* C3 as stated: for any action other than status and data, a JSON response
\* that says error is never returned as a success map but raised.
C3_ErrorAlwaysRaised ==
    (Handled /\ response.action \notin {"status", "data"} /\ SaysError)
    => outcome.kind = "raise"

\* C3 amended: for any action other than status and data, a JSON response
\* that says error is raised as a classified error, unless its result is
\* "ok" and its status is "failure" (result "ok" with a status other than
\* "error" is a success).
C3_ErrorRaisedUnlessOk ==
    (Handled /\ response.action \notin {"status", "data"} /\ SaysError
             /\ ~(RespField("result") = PyStr("ok")
                  /\ RespField("status") = PyStr("failure")))
    => (outcome.kind = "raise" /\ outcome.exc.cls # "")

\* C3 witness: action pay, status failure without a result is raised
C3_Witness ==
    /\ Handled /\ response.action = "pay"
    /\ RespField("status") = PyStr("failure")
    /\ RespField("result") = None
    /\ outcome.kind = "raise"

\* C4: a JSON response that matches none of the earlier rules (result not
\* "ok", no payment_id for a status or data action, status neither error nor
\* failure, result not "error") is returned as the map of its remaining fields.
C4_FallthroughIsSuccess ==
    (Handled /\ RespField("result") # PyStr("ok")
             /\ ~(response.action \in {"status", "data"}
                  /\ RespField("payment_id") # None)
             /\ ~SaysError)
    => ReturnsFields

\* C4 witness: action status with the body {status: success} returns the map
C4_Witness ==
    /\ Handled /\ response.action = "status"
    /\ Body = MkDict([status |-> PyStr("success")])
    /\ outcome.kind = "return"
    /\ outcome.data = MkDict([status |-> PyStr("success")])

\* the error code of the response: err_code, or code when err_code is absent
RespCode == RespField(CodeKey)

\* C5 as stated: every error code made only of digits is raised as a
\* LiqPayFinancialException that carries the same code.
C5_DigitsAreFinancial ==
    (Handled /\ outcome.kind = "raise" /\ RespCode # None /\ IsDigit(RespCode.s))
    => (outcome.exc.cls = "LiqPayFinancialException"
        /\ outcome.exc.code = RespCode.s)

\* C5 amended: every error code made only of digits, other than "5", is
\* raised as a LiqPayFinancialException that carries the same code.
C5_DigitsButFiveAreFinancial ==
    (Handled /\ outcome.kind = "raise" /\ RespCode # None /\ IsDigit(RespCode.s)
             /\ RespCode.s # "5")
    => (outcome.exc.cls = "LiqPayFinancialException"
        /\ outcome.exc.code = RespCode.s)

\* C5 witness: {result: error, err_code: 9859, err_description: Decline}
\* raises a LiqPayFinancialException with code 9859
C5_Witness ==
    /\ Handled
    /\ Body = MkDict([result |-> PyStr("error"), err_code |-> PyStr("9859"),
                      err_description |-> PyStr("Decline")])
    /\ outcome.kind = "raise"
    /\ outcome.exc.cls = "LiqPayFinancialException"
    /\ outcome.exc.code = "9859"
    /\ outcome.exc.message = "Decline"

\* C6: every error raised by _handle_response carries the code of the
\* response (err_code, else code, else "unknown") and, in its details, every
\* other field of the body except result and err_description.
C6_ErrorKeepsRemoteInfo ==
    (op = "handle_response" /\ outcome.kind = "raise")
    => /\ outcome.exc.code = (IF RespCode # None THEN RespCode.s ELSE "unknown")
       /\ \A k \in Fields \ {"result", "err_description", CodeKey} :
             /\ ~outcome.exc.details.none
             /\ k \in DOMAIN outcome.exc.details.d
             /\ SameValue(outcome.exc.details.d[k], Body[k])

\* C6 witness: a code of no known family is raised as the base exception
\* with its code, and payment_id, amount and status in the details
C6_Witness ==
    /\ Handled /\ response.action = "pay"
    /\ RespField("err_code") = PyStr("something_new")
    /\ RespField("payment_id") = PyInt(42)
    /\ RespField("amount") = PyInt(1)
    /\ outcome.kind = "raise"
    /\ outcome.exc.cls = "LiqPayException"
    /\ outcome.exc.code = "something_new"
    /\ outcome.exc.details.d["payment_id"] = PyInt(42)
    /\ outcome.exc.details.d["amount"] = Dec(1)
    /\ "status" \in DOMAIN outcome.exc.details.d

-----------------------------------------------------------------------------
(* Properties of the validator and of the request builder *)

Validated == op = "validate"

Built == op = "request"

\* the value v breaks the rule of the field k
BadValue(k, v) ==
    \/ k = "amount" /\ v \in {Dec(0), PyInt(1)}
    \/ k = "currency" /\ v = PyStr("XXX")
    \/ k \in {"date_from", "date_to", "subscribe_date_start"} /\ v = PyStr("bad")
    \/ k = "subscribe_periodicity" /\ v = PyStr("week")

\* the fields of the request that break their rule
Offending == {k \in DOMAIN vrequest : BadValue(k, vrequest[k])}

\* the violations of the pre-action and post-action rules of the request
ActionViolations ==
    (IF vrequest["action"] = PyStr("subscribe")
        /\ Get(vrequest, "subscribe_periodicity") = None
     THEN {PeriodicityRequired} ELSE {})
    \cup (IF vrequest["action"] = PyStr("reports") /\ Get(vrequest, "date_from") = None
          THEN {DateFromRequired} ELSE {})
    \cup (IF vrequest["action"] = PyStr("reports") /\ Get(vrequest, "date_to") = None
          THEN {DateToRequired} ELSE {})

\* C7: a request with K fields that each break their rule fails with one
\* aggregated error that holds a violation of each of the K fields and
\* every pre-action and post-action violation, for every combination of
\* offending fields.
C7_AllViolationsAggregated ==
    (Validated /\ Offending # {})
    => /\ vresult.kind = "ExceptionGroup"
       /\ \A k \in Offending : \E e \in vresult.errors : e.key = k
       /\ ActionViolations \subseteq vresult.errors

\* C8: an action subscribe request without subscribe_periodicity is
\* rejected with a validation error recorded among the aggregated
\* violations, by the validator and by the request builder alike, and
\* subscribe_periodicity is never filled in with a default.
C8_MissingPeriodicityRejected ==
    /\ (Validated /\ vrequest["action"] = PyStr("subscribe")
                  /\ Get(vrequest, "subscribe_periodicity") = None)
       => (vresult.kind = "ExceptionGroup" /\ PeriodicityRequired \in vresult.errors)
    /\ (Built /\ rparams.action = "subscribe"
              /\ Get(rparams.params, "subscribe_periodicity") = None)
       => rresult.kind = "ExceptionGroup"

\* the subscribe request d has the flag set and starts at the instant the
\* caller supplied, or at the current time when the caller supplied none
SubscribeBuilt(d, supplied) ==
    /\ "subscribe" \in DOMAIN d /\ Truthy(d["subscribe"])
    /\ "subscribe_date_start" \in DOMAIN d
    /\ d["subscribe_date_start"].t = "datetime"
    /\ d["subscribe_date_start"].n = (IF supplied = None THEN now ELSE supplied.n)

\* C9: for action subscribe, the built request has the subscribe flag set
\* and always holds subscribe_date_start: the value of the caller when one
\* was supplied, the current time otherwise.
C9_SubscribeDefaults ==
    /\ (Built /\ rparams.action = "subscribe" /\ rresult.kind = "return")
       => SubscribeBuilt(rresult.params, Get(rparams.params, "subscribe_date_start"))
    /\ (Validated /\ vrequest["action"] = PyStr("subscribe") /\ vresult.kind = "return")
       => SubscribeBuilt(vresult.request, Get(vrequest, "subscribe_date_start"))

\* C9 witness: the validator, called at time 500 without subscribe_date_start,
\* returns the request with the flag and with the start at 500
C9_Witness ==
    /\ Validated /\ vrequest["action"] = PyStr("subscribe")
    /\ "subscribe_date_start" \notin DOMAIN vrequest
    /\ now = 500
    /\ vresult.kind = "return"
    /\ vresult.request["subscribe"] = PyInt(1)
    /\ vresult.request["subscribe_date_start"] = DateTime(500, "UTC")

\* the bound v of a report range in epoch milliseconds
EpochMillis(v) ==
    CASE v.t = "int" -> v.n
      [] v.t = "datetime" -> RoundHalfEven(v.n)
      [] v.t = "timedelta" -> RoundHalfEven(now + v.n)
      [] OTHER -> -1

\* the bound is a well-formed date value
GoodDate(v) == v.t \in {"int", "datetime", "timedelta"}

\* C10: for action reports, validation fails unless date_from and date_to
\* are both present and date_from, in epoch milliseconds, is strictly less
\* than date_to; a missing bound and equal bounds are each reported as a
\* validation error.
C10_ReportsRange ==
    (Validated /\ vrequest["action"] = PyStr("reports"))
    => LET df == Get(vrequest, "date_from")
           dt == Get(vrequest, "date_to")
       IN  /\ vresult.kind = "return"
              => (GoodDate(df) /\ GoodDate(dt) /\ EpochMillis(df) < EpochMillis(dt))
           /\ df = None
              => (vresult.kind = "ExceptionGroup" /\ DateFromRequired \in vresult.errors)
           /\ dt = None
              => (vresult.kind = "ExceptionGroup" /\ DateToRequired \in vresult.errors)
           /\ (GoodDate(df) /\ GoodDate(dt) /\ EpochMillis(df) = EpochMillis(dt))
              => (vresult.kind = "ExceptionGroup" /\ DateOrder \in vresult.errors)

\* C10 witness: a reports request whose bounds are both 2 milliseconds
\* (1600 microseconds, rounded) is refused with the order violation only
C10_Witness ==
    /\ Validated /\ vrequest["action"] = PyStr("reports")
    /\ Get(vrequest, "amount") = Dec(1) /\ Get(vrequest, "currency") = PyStr("USD")
    /\ Get(vrequest, "date_from") = DateTime(1600, "UTC")
    /\ Get(vrequest, "date_to") = DateTime(1600, "UTC")
    /\ vresult.kind = "ExceptionGroup"
    /\ vresult.errors = {DateOrder}

-----------------------------------------------------------------------------
(* Properties of the opid routing *)

\* the opid of the call of request(), None when the caller gave none
Opid == Get(rparams.params, "opid")

\* C11 as stated: request() routes a string or UUID opid to order_id and an
\* integer opid to payment_id, and the returned map never has the key opid.
C11_OpidRouted ==
    (Built /\ rresult.kind = "return")
    => /\ "opid" \notin DOMAIN rresult.params
       /\ Opid.t \in {"str", "UUID"}
          => Get(rresult.params, "order_id") = Opid
       /\ Opid.t = "int"
          => Get(rresult.params, "payment_id") = PyStr(IntToStr(Opid.n))

\* C11 amended: the returned map never has the key opid; a string or UUID
\* opid becomes order_id and an integer opid becomes payment_id (as its
\* decimal text) when the caller gave no such key, and a key the caller gave
\* is kept with the caller's value; the opid never reaches the other key.
C11_OpidRoutedUnlessGiven ==
    (Built /\ rresult.kind = "return")
    => LET order_id   == Get(rparams.params, "order_id")
           payment_id == Get(rparams.params, "payment_id")
       IN  /\ "opid" \notin DOMAIN rresult.params
           /\ Get(rresult.params, "order_id") =
                 (IF "order_id" \notin DOMAIN rparams.params
                     /\ Opid.t \in {"str", "UUID"}
                  THEN Opid ELSE order_id)
           /\ Get(rresult.params, "payment_id") =
                 (IF "payment_id" \notin DOMAIN rparams.params /\ Opid.t = "int"
                  THEN PyStr(IntToStr(Opid.n)) ELSE payment_id)

\* C11 witness: opid 17 alone becomes payment_id "17", and the map has
\* neither opid nor order_id
C11_Witness ==
    /\ Built /\ rparams.action = "pay"
    /\ rparams.params = MkDict([opid |-> PyInt(17)])
    /\ rresult.kind = "return"
    /\ rresult.params["payment_id"] = PyStr("17")
    /\ DOMAIN rresult.params = {"action", "public_key", "version", "payment_id"}

-----------------------------------------------------------------------------
(* Properties of the normalization of the request *)

\* a call of the encoding pipeline returned the encoded data
Encoded == op = "encode" /\ eresult.kind = "return"

\* the call normalized the request: the client did, or encode() with a
\* preprocessor and a validator, or a LiqpayEncoder with its validator
Normalized ==
    \/ ecall.fn \in {"LiqpayEncoder", "BaseClient.encode"}
    \/ ecall.fn = "encode" /\ ecall.preprocessor /\ ecall.validator

\* the members of the serialized JSON object
Doc == b64decode(eresult.data)

\* the keys of the serialized JSON object
DocKeys == Keys(Doc)

\* the token of the key k of the serialized JSON object
DocToken(k) == ToDict(Doc)[k]

\* the parameters of the call as a dict
Params == ToDict(ecall.params)

\* C12: after normalization the parameter map that is serialized has no
\* entry whose value is None (no member of the JSON object is null), for
\* every input map, also when its flag fields are falsy.
C12_NoNullSerialized ==
    (Encoded /\ Normalized) => \A i \in DOMAIN Doc : Doc[i].v # JNull

FlagKeys == {"subscribe", "letter_of_credit", "recurringbytoken", "verifycode"}

\* the sentinel of a flag field
Sentinel(k) == IF k = "verifycode" THEN JStr("Y") ELSE JInt(1)

\* the flag fields the caller gave a value, except the flag that the
\* action of the request sets by itself
GivenFlags ==
    {k \in FlagKeys \cap DOMAIN Params :
        Params[k] # None /\ Get(Params, "action") # PyStr(k) /\ ecall.action # k}

\* C13: in the normalized request a flag field with a truthy value is
\* replaced by its sentinel (1, or "Y" for verifycode) and a flag field with
\* a falsy value is absent: never present with false or null.
C13_FlagsSentinelOrOmitted ==
    (Encoded /\ Normalized)
    => \A k \in GivenFlags :
          IF Truthy(Params[k])
          THEN k \in DocKeys /\ DocToken(k) = Sentinel(k)
          ELSE k \notin DocKeys

-----------------------------------------------------------------------------
(* Properties of the callback *)

CalledBack == op = "callback"

\* the signature of the call is the signature of its data under the
\* private key of the client
SignatureMatches == ccall.signature = sign(ccall.data, PrivateKey)

\* C14: callback returns a decoded map only if the signature equals
\* sign(data, private_key) or the caller passed verify=False; with
\* verification on and another signature it raises an invalid-signature
\* error (the request error with the code invalid_signature) and returns
\* no decoded data.
C14_CallbackVerifies ==
    CalledBack
    => /\ cresult.kind = "return" => (SignatureMatches \/ ~ccall.verify)
       /\ (ccall.verify /\ ~SignatureMatches)
          => /\ cresult.kind = "LiqPayRequestException"
             /\ cresult.code = "invalid_signature"
             /\ cresult.result = EmptyDict

\* the call of BaseClient.encode of the example: action pay, order_id o1,
\* amount 1 (the integer of the example, or the Decimal), currency USD,
\* description d
ExampleEncoded ==
    /\ ecall.fn = "BaseClient.encode" /\ ecall.action = "pay"
    /\ Keys(ecall.params) = {"amount", "order_id", "description", "currency"}
    /\ Params["amount"] \in {PyInt(1), Dec(1)}

\* C15: the pair that BaseClient.encode makes for the example is accepted
\* by the callback of the same client, verification on, and the decoded
\* result has order_id o1, action pay, amount 1 and currency USD.
C15_WebhookRoundTrip ==
    /\ (op = "encode" /\ ExampleEncoded) => eresult.kind = "return"
    /\ (CalledBack /\ ExampleEncoded)
       => /\ cresult.kind = "return"
          /\ Get(cresult.result, "order_id") = PyStr("o1")
          /\ Get(cresult.result, "action") = PyStr("pay")
          /\ Get(cresult.result, "amount") = Dec(1)
          /\ Get(cresult.result, "currency") = PyStr("USD")

-----------------------------------------------------------------------------
(* Properties of the methods of the client *)

\* the verdict of the validator on the request of the call in progress:
\* how LiqpayValidator leaves on the built and preprocessed request, "none"
\* when the call raises before it gets to the validator (the assert of
\* checkout, the builder, the preprocessor)
ClientValidation ==
    LET built == request(net.action, PublicKey, VERSION,
                         PayloadKwargs(net.method, net.kwargs, net.format), now)
        pre   == Preprocessor(FilterNone(SortedItems(built.params)), now)
    IN  IF \/ net.method = "checkout" /\ net.action \notin CHECKOUT_ACTIONS
           \/ built.kind # "return"
           \/ ~pre.ok
        THEN "none"
        ELSE LiqpayValidator(ToDict(pre.items), now).kind

\* C16: Client.request, Client.reports and Client.checkout never call the
\* transport when the parameters fail validation: the call has raised the
\* validation error and nothing was sent; whenever something was sent, the
\* same request had passed validation, and what was sent is its payload.
C16_ValidatedBeforeSend ==
    op = "client"
    => /\ net.posts # <<>>
          => (ClientValidation = "return" /\ net.posts = <<net.content>>)
       /\ ClientValidation # "return"
          => (net.pc = "raised" /\ net.posts = <<>> /\ net.result = NoNResult)
       /\ ClientValidation = "ExceptionGroup" => net.error = "ExceptionGroup"

\* C16 witness: Client.request for action pay with amount 0 and currency
\* XXX has raised the aggregated validation error and nothing was sent
C16_Witness ==
    /\ op = "client" /\ net.method = "request" /\ net.action = "pay"
    /\ net.kwargs["amount"] = Dec(0) /\ net.kwargs["currency"] = PyStr("XXX")
    /\ ClientValidation = "ExceptionGroup"
    /\ net.pc = "raised" /\ net.error = "ExceptionGroup"
    /\ net.posts = <<>>

-----------------------------------------------------------------------------
(* Properties of the canonical encoding *)

\* the call uses the defaults: a LiqpayEncoder as it is constructed, or
\* encode() without an encoder argument
DefaultEncoding ==
    \/ ecall.fn = "LiqpayEncoder" /\ ecall.encoder = LiqpayEncoder
    \/ ecall.fn = "encode" /\ ecall.encoder = JSONEncoderDefault

\* the outcome of the same call on the same pairs inserted in the opposite
\* order
EncodedReversed ==
    IF ecall.fn = "encode"
    THEN encode(Reversed(ecall.params), ecall.encoder, ecall.preprocessor,
                ecall.validator, now)
    ELSE LiqpayEncoderCall(Reversed(ecall.params), ecall.encoder, now)

\* C17: the canonical encoding does not depend on the insertion order of
\* the keys: a map with the same pairs inserted in another order is
\* encoded to the same data by LiqpayEncoder with its defaults and by
\* encode() with its default encoder, and gets the same signature.
C17_OrderIndependent ==
    (Encoded /\ DefaultEncoding)
    => /\ EncodedReversed.kind = "return"
       /\ EncodedReversed.data = eresult.data
       /\ sign(EncodedReversed.data, PrivateKey) = sign(eresult.data, PrivateKey)

\* the call is LiqpayEncoder()(request) for a map of strings, integers and
\* decimal amounts, and it returned
EncodedPlain ==
    /\ Encoded
    /\ ecall.fn = "LiqpayEncoder"
    /\ \A i \in DOMAIN ecall.params : ecall.params[i].v.t \in {"str", "int", "Decimal"}

\* the normalized input: what the validator returns for the request
NormalizedInput == LiqpayValidator(Params, now).request

\* what the decoder makes of the encoder's output
DecodedOutput == LiqpayDecoderCall(eresult.data)

\* C18: canonical round trip: for a parameter map of strings, integers and
\* decimal amounts, decoding the encoder's output yields a map equal to
\* the normalized (validated) input, key for key and value for value, and
\* decimal amounts come back as equal Decimal values.
C18_RoundTrip ==
    EncodedPlain
    => /\ DOMAIN DecodedOutput = DOMAIN NormalizedInput
       /\ \A k \in DOMAIN NormalizedInput :
            /\ PyEq(DecodedOutput[k], NormalizedInput[k])
            /\ NormalizedInput[k].t = "Decimal" => DecodedOutput[k].t = "Decimal"

-----------------------------------------------------------------------------
(* Properties of parse_isoduration *)

\* parse_isoduration was called
Parsed == op = "parse"

\* the text of the call is well-formed
WellFormed == dur.parts # NoParts

\* the sign of the components p as a factor
SignOf(p) == IF p.sign = "-" THEN 0 - 1 ELSE 1

\* the span in seconds that the components p stand for
SpanOf(p) ==
    SignOf(p) * ((365 * StrToInt(p.years) + 30 * StrToInt(p.months)
                  + StrToInt(p.days)) * 86400
                 + StrToInt(p.hours) * 3600 + StrToInt(p.minutes) * 60
                 + StrToInt(p.seconds))

\* C19: parse_isoduration on a well-formed text [-]P[n]Y[n]M[n]DT[n]H[n]M[n]S
\* returns sign * (365 * years + 30 * months + days, hours, minutes,
\* seconds); "P30D" is 30 days, "-P1D" is minus one day, and the text of
\* an unsigned well-formed s with "-" before it parses to the negated
\* duration of s.
C19_DurationValue ==
    (Parsed /\ WellFormed)
    => /\ dur.result = DReturn(SpanOf(dur.parts))
       /\ dur.value = "P30D" => dur.result = DReturn(30 * 86400)
       /\ dur.value = "-P1D" => dur.result = DReturn(0 - 86400)
       /\ dur.parts.sign = ""
          => parse_isoduration("-" \o dur.value) = DReturn(0 - dur.result.delta)

\* C19 witness: "-P1Y2M30DT5H7M10S" was parsed, all the components and the
\* sign are in the result
C19_Witness ==
    /\ Parsed /\ WellFormed
    /\ dur.value = "-P1Y2M30DT5H7M10S"
    /\ dur.result = DReturn(0 - ((365 + 60 + 30) * 86400 + 5 * 3600 + 7 * 60 + 10))

\* C20: parse_isoduration rejects every text that the duration grammar
\* does not match with the error it raises for a missing leading P
\* (ValueError): "P", "30D", "P1" and "P1DX" all raise it and none of them
\* returns a duration.
C20_MalformedRejected ==
    (Parsed /\ dur.value \in MalformedTexts)
    => (dur.result.kind = "raise" /\ dur.result.exc = "ValueError")

-----------------------------------------------------------------------------
(* Properties of the conversions between datetimes and milliseconds *)

\* to_milliseconds returned for a datetime
ConvertedDatetime ==
    op = "convert" /\ msec.value.t = "datetime" /\ msec.result.ok

\* the distance in microseconds between the instant us and the millisecond m
Distance(us, m) == IF us >= 1000 * m THEN us - 1000 * m ELSE 1000 * m - us

\* C21: to_milliseconds of a timestamp with sub-millisecond precision
\* returns the nearest whole millisecond, an exact half going to the even
\* millisecond; it never truncates toward zero: 600 microseconds past a
\* millisecond boundary map to the next millisecond.
C21_RoundsHalfEven ==
    ConvertedDatetime
    => LET us == msec.value.n
           m  == msec.result.value.n
       IN  /\ Distance(us, m) <= 500
           /\ Distance(us, m) = 500 => m % 2 = 0
           /\ us % 1000 = 600 => m = (us \div 1000) + 1

\* C22: datetime_from_millis(to_milliseconds(dt)) is a UTC datetime that
\* differs from dt by less than one millisecond, for every timezone-aware
\* dt.
C22_RoundTripWithinMillisecond ==
    (ConvertedDatetime /\ msec.back # None)
    => /\ msec.back.t = "datetime" /\ msec.back.s = "UTC"
       /\ Distance(msec.value.n, msec.back.n \div 1000) < 1000
       /\ msec.back.n % 1000 = 0

\* C22 witness: a datetime 1600 microseconds after the epoch in the zone
\* +02:00 went to 2 milliseconds and back to the UTC datetime at 2000
\* microseconds
C22_Witness ==
    /\ ConvertedDatetime
    /\ msec.value = DateTime(1600, "+02:00")
    /\ msec.result.value = PyInt(2)
    /\ msec.back = DateTime(2000, "UTC")

\* a split_rules list of mappings that each have the four fields of a rule
RulesChecked ==
    /\ op = "validate"
    /\ "split_rules" \in DOMAIN vrequest
    /\ vrequest["split_rules"].t = "list"
    /\ \A p \in DOMAIN vrequest["split_rules"].items :
          /\ vrequest["split_rules"].items[p].t = "dict"
          /\ DOMAIN vrequest["split_rules"].items[p].d = SplitRuleFields

\* the rule meets the three conditions on amount, payer and server_url
RuleAcceptable(rule) ==
    /\ rule.amount.t = "Decimal" /\ rule.amount.n > 0
    /\ rule.commission_payer \in {PyStr("sender"), PyStr("receiver")}
    /\ urlparse(rule.server_url.s).scheme \in {"http", "https"}
    /\ urlparse(rule.server_url.s).netloc # ""
    /\ Len(rule.server_url.s) <= 510

\* C23: split_rules accepts a rule only if its amount is a positive decimal,
\* its commission payer is sender or receiver and its server_url is an http
\* or https URL with a host and at most 510 characters; a rule that breaks
\* any one of the conditions is reported as a validation error.
C23_RuleConditions ==
    RulesChecked
    => \A p \in DOMAIN vrequest["split_rules"].items :
          ~RuleAcceptable(vrequest["split_rules"].items[p].d)
          => /\ vresult.kind = "ExceptionGroup"
             /\ \E e \in vresult.errors : StartsWith(e.key, RuleName(p))

\* the conditions other than the length of server_url are enforced
C23_OtherConditions ==
    RulesChecked
    => \A p \in DOMAIN vrequest["split_rules"].items :
          (~RuleAcceptable(vrequest["split_rules"].items[p].d)
             /\ vrequest["split_rules"].items[p].d.server_url.s # LongUrl)
          => /\ vresult.kind = "ExceptionGroup"
             /\ \E e \in vresult.errors : StartsWith(e.key, RuleName(p))

\* _handle_reports_response was called with report.resp and report.format
ReportHandled == op = "report"

\* the call raised an error of a class of the LiqPay hierarchy
RaisedClassified(result) ==
    /\ result.kind = "raise"
    /\ result.exc.cls \in {"LiqPayException", "LiqPayAntiFraudException",
                           "LiqPayFinancialException", "LiqPayNonFinancialException",
                           "LiqPayExpireException", "LiqPayRequestException"}

\* C24: _handle_reports_response returns exactly the text of the data array
\* that ends the body of a JSON response to a json (or unspecified) format
\* request, raises a classified error for every other JSON response (any
\* JSON body when csv or xml was requested), and returns the body text of a
\* response of another content type unchanged.
C24_ReportsResponse ==
    ReportHandled
    => IF report.resp.json
       THEN IF report.format \in {PyStr("json"), None} /\ report.resp.rows # None
            THEN report.result = NReturn(report.resp.rows)
            ELSE RaisedClassified(report.result)
       ELSE report.result = NReturn(report.resp.text)

\* the text has one "data":[ and no newline before its end
PlainBody(x) ==
    /\ Cardinality({i \in 1..(Len(x) - 7) : SubSeq(x, i, i + 7) = "\"data\":["}) <= 1
    /\ \A i \in 1..(Len(x) - 1) : SubSeq(x, i, i) # "\n"

\* the claim holds for the bodies on one line that name data once
C24_PlainBodies ==
    (ReportHandled /\ (report.resp.json => PlainBody(report.resp.text.s)))
    => IF report.resp.json
       THEN IF report.format \in {PyStr("json"), None} /\ report.resp.rows # None
            THEN report.result = NReturn(report.resp.rows)
            ELSE RaisedClassified(report.result)
       ELSE report.result = NReturn(report.resp.text)

\* the fields of the addenda value that are longer than their limit
OverLength(value) ==
    {f \in DaeFields :
        Len((IF value.t = "dict" THEN value.d[f.wire] ELSE value.d[f.attr]).s) > f.max}

\* the validator was called with a dae mapping that has the wire keys
DaeMappingChecked ==
    /\ op = "validate"
    /\ "dae" \in DOMAIN vrequest
    /\ vrequest["dae"].t = "dict"
    /\ "airLine" \in DOMAIN vrequest["dae"].d

\* the group holds an error of its own for each over-length field
OwnErrors(value) ==
    /\ vresult.kind = "ExceptionGroup"
    /\ \A f \in OverLength(value) :
          \E e \in vresult.errors : e.key \in {"dae." \o f.attr, "dae." \o f.wire}

\* C25: a dae mapping with the wire keys whose six string fields are within
\* 4/15/29/5/5/5 characters passes validation and is converted to a
\* DetailAddenda; each over-length field yields its own validation error.
C25_DaeMapping ==
    DaeMappingChecked
    => IF OverLength(vrequest["dae"]) = {}
       THEN /\ vresult.kind = "return"
            /\ vresult.request["dae"] = DetailAddenda_from_dict(vrequest["dae"]).value
       ELSE OwnErrors(vrequest["dae"])

\* a DetailAddenda instance within the limits passes, and each over-length
\* field of an instance yields its own error
C25_DaeInstance ==
    (op = "validate" /\ "dae" \in DOMAIN vrequest /\ vrequest["dae"].t = "DetailAddenda")
    => IF OverLength(vrequest["dae"]) = {}
       THEN vresult.kind = "return" /\ vresult.request["dae"] = vrequest["dae"]
       ELSE OwnErrors(vrequest["dae"])

\* no dae mapping with the wire keys passes validation
C25_MappingsRejected ==
    DaeMappingChecked
    => /\ vresult.kind = "ExceptionGroup"
       /\ vresult.errors = {Error("dae", "TypeError", "DetailAddenda.from_dict()")}

RECURSIVE Flatten(_)
\* the payments of all the chunks in order
Flatten(results) ==
    IF results = <<>> THEN <<>> ELSE Head(results) \o Flatten(Tail(results))

\* the pieces are "[", the encoded items with exactly one comma between
\* consecutive items, and "]"
JsonArrayOf(out, items) ==
    /\ Len(out) = (IF items = <<>> THEN 2 ELSE 2 * Len(items) + 1)
    /\ out[1] = "["
    /\ out[Len(out)] = "]"
    /\ \A k \in 1..Len(items) : out[2 * k] = EncodeItem(items[k])
    /\ \A k \in 1..(Len(items) - 1) : out[2 * k + 1] = ","

\* a reports run with --format json has ended normally
JsonRunDone == op = "reports" /\ cli.format = "json" /\ cli.pc = "done"

\* C26: with --format json, what the reports command emits is a well-formed
\* JSON array of every payment of every chunk in order: "[" first, "]" last
\* and exactly one comma between consecutive items, for every sequence of
\* chunk results including chunks without payments.
C26_JsonArray == JsonRunDone => JsonArrayOf(cli.out, Flatten(cli.results))

\* the array is well formed when the first chunk has payments or no chunk
\* has any
C26_FirstChunkNotEmpty ==
    (JsonRunDone /\ (cli.results[1] # <<>> \/ Flatten(cli.results) = <<>>))
    => JsonArrayOf(cli.out, Flatten(cli.results))

\* the chunks tile the range from date_from to date_to in steps of at most step
Tiles(chunks, date_from, date_to, step) ==
    /\ chunks # <<>>
    /\ chunks[1][1] = date_from
    /\ chunks[Len(chunks)][2] = date_to
    /\ \A i \in 1..(Len(chunks) - 1) : chunks[i + 1][1] = chunks[i][2]
    /\ \A i \in 1..Len(chunks) :
          0 < chunks[i][2] - chunks[i][1] /\ chunks[i][2] - chunks[i][1] <= step

\* a reports run with date_from < date_to and a positive timespan has left
\* its loop
LoopEnded ==
    /\ op = "reports"
    /\ cli.date_from < cli.date_to
    /\ cli.step > 0
    /\ cli.pc # "loop"

\* C27: for every date_from < date_to and every positive timespan the
\* reports loop terminates and has requested a finite sequence of chunks that
\* tiles the range: the first starts at date_from, the last ends at date_to,
\* each starts where the one before ended, and each is longer than 0 and no
\* longer than the timespan.
C27_ChunksTileRange ==
    LoopEnded
    => cli.pc = "done" /\ Tiles(cli.chunks, cli.date_from, cli.date_to, cli.step)

\* the claim holds when date_to + timespan is an instant that a datetime can
\* hold and no chunk after the first comes back as an empty text
C27_WithinRange ==
    (LoopEnded /\ cli.date_to + cli.step <= MaxInstant /\ cli.pc # "RuntimeError")
    => cli.pc = "done" /\ Tiles(cli.chunks, cli.date_from, cli.date_to, cli.step)

\* every pass of the loop moves chunk_date_from forward and never past date_to
C27_Progress ==
    [][ReportsChunk =>
          (cli'.pc = "loop"
             => /\ cli'.chunk_date_from > cli.chunk_date_from
                /\ cli'.chunk_date_from <= cli.date_to)]_vars

C28_RaisedWitness ==
    /\ Validated /\ vresult.kind = "ExceptionGroup"
    /\ vrequest["action"] = PyStr("subscribe")
    /\ vcaller = vrequest

\* a client exists and holds a pair of keys
ClientHasKeys == op = "keys" /\ pair.public # None

\* C29: after any sequence of update_keys calls on a client the stored
\* public and private keys are both sandbox keys or both live keys; a call
\* with one sandbox and one live key raises ValueError and leaves the pair
\* that was stored before unchanged.
C29_KeysAgree ==
    /\ ClientHasKeys
       => /\ pair.private # None
          /\ is_sandbox(pair.public) = is_sandbox(pair.private)
    /\ (op = "keys" /\ pair.calls > 0 /\ pair.arg_public # None /\ pair.arg_private # None
          /\ is_sandbox(pair.arg_public) # is_sandbox(pair.arg_private))
       => /\ pair.raised = "ValueError"
          /\ <<pair.public, pair.private>> = pair.before

\* a client with a stored pair got a second call with a sandbox public key
\* and a live private key
C29_Witness ==
    /\ ClientHasKeys
    /\ pair.calls = 2
    /\ pair.arg_public = PyStr("sandbox_i0000000")
    /\ pair.arg_private = PyStr("AAAAAA")
    /\ pair.raised = "ValueError"

\* the codes that the last branch of get_exception_cls lists
RequestCodes ==
    {PyStr("invalid_signature"), PyStr("public_key_not_found"), PyStr("order_id_empty"),
     PyStr("amount_limit"), PyStr("wrong_amount_currency")}

\* C30: each of the codes invalid_signature, public_key_not_found,
\* order_id_empty, amount_limit and wrong_amount_currency is classified by
\* get_exception_cls as LiqPayRequestException, whatever the earlier prefix
\* and suffix rules say.
C30_RequestCodes ==
    (op = "classify" /\ classified.code \in RequestCodes)
    => classified.cls = "LiqPayRequestException"

\* the listed codes without the suffix _not_found or _limit are request
\* errors, the two with such a suffix are non-financial errors
C30_SuffixFirst ==
    (op = "classify" /\ classified.code \in RequestCodes)
    => classified.cls = (IF EndsWith(classified.code.s, "_not_found")
                            \/ EndsWith(classified.code.s, "_limit")
                         THEN "LiqPayNonFinancialException"
                         ELSE "LiqPayRequestException")

====
